---- MODULE Spec2Model ----
(***************************************************************************)
(* State-machine models of the example programs of the repository.  Each   *)
(* source file is a standalone program with no shared runtime, so each has *)
(* its own variables, its own actions and its own specification; a         *)
(* specification leaves the variables of the other programs untouched.     *)
(*                                                                         *)
(*   SpecTraverse, SpecTraverseDepth, SpecShortestPath, SpecConnected      *)
(*               03-hybrid-memory/knowledge_graph.py   (KnowledgeGraph)    *)
(*   SpecRRF     03-hybrid-memory/hybrid_retrieval.py  (rank fusion)       *)
(*   SpecHybrid  03-hybrid-memory/hybrid_retrieval.py  (HybridMemorySystem)*)
(*   SpecVector  03-hybrid-memory/vector_search.py     (SimpleVectorStore) *)
(*   SpecFSM     01-state-management/basic_fsm.py      (StateMachine)      *)
(*   SpecCheckpoint  01-state-management/checkpointing.py (run_workflow)   *)
(*   SpecRetry       02-interoperability/adapter_pattern.py (with_retry)   *)
(*   SpecBreaker     02-interoperability/adapter_pattern.py                *)
(*                   (CircuitBreaker, LegacySystemAdapter.execute)         *)
(*   SpecDatabase    02-interoperability/adapter_pattern.py                *)
(*                   (SafeDatabaseAdapter)                                 *)
(*   SpecTask        02-interoperability/agent_card.py    (A2ATask)        *)
(*   SpecMCP         02-interoperability/mcp_tools.py                      *)
(*                   (CustomerServiceMCPServer)                            *)
(*   SpecGuardrail   09-agentic-security/guardrails.py                     *)
(*                   (DefenseInDepthPipeline.process_output)               *)
(*   SpecWindow      04-context-economics/context_compaction.py            *)
(*                   (SlidingWindowManager)                                *)
(***************************************************************************)
EXTENDS Integers, Sequences, FiniteSets, TLC

VARIABLES
    relationships,   \* KnowledgeGraph._relationships : list of Relationship
    outgoing,        \* KnowledgeGraph._outgoing : source_id -> list of Relationship
    incoming,        \* KnowledgeGraph._incoming : target_id -> list of Relationship
    kg_call          \* the last query made on the graph, with its arguments and result

kg_vars == <<relationships, outgoing, incoming, kg_call>>

VARIABLES
    ranked_lists,    \* reciprocal_rank_fusion's argument: list of lists of RetrievalResult
    k,               \* reciprocal_rank_fusion's argument k
    rrf_call         \* the call of reciprocal_rank_fusion, with its result once made

rrf_vars == <<ranked_lists, k, rrf_call>>

VARIABLES
    memories,            \* HybridMemorySystem._memories : item_id -> MemoryItem
    by_tier,             \* HybridMemorySystem._by_tier : tier -> list of MemoryItem
    by_user,             \* HybridMemorySystem._by_user : user_id -> list of MemoryItem
    entity_to_memories,  \* HybridMemorySystem._entity_to_memories : entity -> list of item_id
    hm_call              \* the last call on the memory system, with its arguments and result

hm_vars == <<memories, by_tier, by_user, entity_to_memories, hm_call>>

VARIABLES
    documents,       \* SimpleVectorStore._documents : the Documents, in dict order
    vs_call          \* the last call on the vector store, with its arguments and result

vs_vars == <<documents, vs_call>>

VARIABLES
    state,           \* StateMachine.state
    history,         \* StateMachine.history : list of (from_state, to_state)
    fsm_call         \* the last call of transition, with its argument and result

fsm_vars == <<state, history, fsm_call>>

VARIABLES
    checkpoints,     \* the checkpoints table of CheckpointStore : workflow_id -> row
    runs             \* the calls of run_workflow made so far, each with what it did

cp_vars == <<checkpoints, runs>>

VARIABLES
    rt_call          \* the call of a function wrapped by with_retry, with what it did

rt_vars == <<rt_call>>

VARIABLES
    circuit_breaker, \* LegacySystemAdapter.circuit_breaker : the CircuitBreaker's fields
    now,             \* time.time(), in ticks of half a second
    customers,       \* SafeDatabaseAdapter._customers : id -> row
    command_queue,   \* SafeDatabaseAdapter._command_queue : list of DatabaseCommand
    ad_call          \* the last call on the breaker or the adapter, with what it did

ad_vars == <<circuit_breaker, now, customers, command_queue, ad_call>>

VARIABLES
    status,          \* A2ATask.status
    task_result,     \* A2ATask.result
    task_error,      \* A2ATask.error
    updated_at,      \* A2ATask.updated_at, as the time of the call that set it
    utcnow,          \* datetime.utcnow(), counted in calls of transition_to
    a2a_call         \* the last call of transition_to, with its arguments and outcome

a2a_vars == <<status, task_result, task_error, updated_at, utcnow, a2a_call>>

VARIABLES
    resources,       \* MCPServer._resources : uri -> MCPResource
    mcp_call         \* the last call on the MCP server, with its arguments and result

mcp_vars == <<resources, mcp_call>>

VARIABLES
    gr_call          \* the last call of process_output, with its argument and result

gr_vars == <<gr_call>>

VARIABLES
    window_size,         \* SlidingWindowManager.window_size
    all_turns,           \* SlidingWindowManager._all_turns : the detailed history
    summarized_history,  \* SlidingWindowManager._summarized_history, as its summaries
    added_turns          \* the turns add_turn has created so far, in order

sw_vars == <<window_size, all_turns, summarized_history, added_turns>>

vars ==
    <<kg_vars, rrf_vars, hm_vars, vs_vars, fsm_vars, cp_vars, rt_vars, ad_vars,
       a2a_vars, mcp_vars, gr_vars, sw_vars>>

\* The variables of the other programs, which a program's actions leave alone.
kg_others ==
    <<rrf_vars, hm_vars, vs_vars, fsm_vars, cp_vars, rt_vars, ad_vars, a2a_vars,
       mcp_vars, gr_vars, sw_vars>>
rrf_others ==
    <<kg_vars, hm_vars, vs_vars, fsm_vars, cp_vars, rt_vars, ad_vars, a2a_vars,
       mcp_vars, gr_vars, sw_vars>>
hm_others ==
    <<kg_vars, rrf_vars, vs_vars, fsm_vars, cp_vars, rt_vars, ad_vars, a2a_vars,
       mcp_vars, gr_vars, sw_vars>>
vs_others ==
    <<kg_vars, rrf_vars, hm_vars, fsm_vars, cp_vars, rt_vars, ad_vars, a2a_vars,
       mcp_vars, gr_vars, sw_vars>>
fsm_others ==
    <<kg_vars, rrf_vars, hm_vars, vs_vars, cp_vars, rt_vars, ad_vars, a2a_vars,
       mcp_vars, gr_vars, sw_vars>>
sw_others ==
    <<kg_vars, rrf_vars, hm_vars, vs_vars, fsm_vars, cp_vars, rt_vars, ad_vars,
       a2a_vars, mcp_vars, gr_vars>>
gr_others ==
    <<kg_vars, rrf_vars, hm_vars, vs_vars, fsm_vars, cp_vars, rt_vars, ad_vars,
       a2a_vars, mcp_vars, sw_vars>>
mcp_others ==
    <<kg_vars, rrf_vars, hm_vars, vs_vars, fsm_vars, cp_vars, rt_vars, ad_vars,
       a2a_vars, gr_vars, sw_vars>>
a2a_others ==
    <<kg_vars, rrf_vars, hm_vars, vs_vars, fsm_vars, cp_vars, rt_vars, ad_vars,
       mcp_vars, gr_vars, sw_vars>>
ad_others ==
    <<kg_vars, rrf_vars, hm_vars, vs_vars, fsm_vars, cp_vars, rt_vars, a2a_vars,
       mcp_vars, gr_vars, sw_vars>>
rt_others ==
    <<kg_vars, rrf_vars, hm_vars, vs_vars, fsm_vars, cp_vars, ad_vars, a2a_vars,
       mcp_vars, gr_vars, sw_vars>>
cp_others ==
    <<kg_vars, rrf_vars, hm_vars, vs_vars, fsm_vars, rt_vars, ad_vars, a2a_vars,
       mcp_vars, gr_vars, sw_vars>>

(***************************************************************************)
(* Generic helpers.                                                        *)
(***************************************************************************)
Range(s) == {s[i] : i \in 1..Len(s)}

SeqsUpTo(S, n) == UNION {[1..m -> S] : m \in 0..n}

\* The first n elements of s: the slice s[:n] for n >= 0.
Take(s, n) == SubSeq(s, 1, IF n < Len(s) THEN n ELSE Len(s))

\* The value of a variable holding a call before the call is made.
NotCalled == [op |-> "none"]

\* The variables of a program that is not running.
KgIdle ==
    /\ relationships = <<>>
    /\ outgoing = <<>>
    /\ incoming = <<>>
    /\ kg_call = NotCalled

RrfIdle ==
    /\ ranked_lists = <<>>
    /\ k = 0
    /\ rrf_call = NotCalled

HmIdle ==
    /\ memories = <<>>
    /\ by_tier = <<>>
    /\ by_user = <<>>
    /\ entity_to_memories = <<>>
    /\ hm_call = NotCalled

VsIdle ==
    /\ documents = <<>>
    /\ vs_call = NotCalled

FsmIdle ==
    /\ state = "none"
    /\ history = <<>>
    /\ fsm_call = NotCalled

\* A sort that puts elements of equal key in the reverse of their order in s.
SortedReverseUnstable(s, greater) ==
    LET place(i) == 1 + Cardinality({j \in 1..Len(s) :
                        greater[j][i] \/ (j > i /\ ~greater[i][j])})
    IN [p \in 1..Len(s) |-> s[CHOOSE i \in 1..Len(s) : place(i) = p]]

\* sorted(s, key, reverse=True); greater[i][j] is true when the key of s[i] is
\* greater than the key of s[j].  The sort
\* is stable: s[j] comes ahead of s[i] when its key is the greater, or when the
\* keys are equal and j < i.
SortedReverse(s, greater) ==
    LET place(i) == 1 + Cardinality({j \in 1..Len(s) :
                        greater[j][i] \/ (j < i /\ ~greater[i][j])})
    IN [p \in 1..Len(s) |-> s[CHOOSE i \in 1..Len(s) : place(i) = p]]

CpIdle ==
    /\ checkpoints = <<>>
    /\ runs = <<>>

RtIdle ==
    /\ rt_call = NotCalled

AdIdle ==
    /\ circuit_breaker = <<>>
    /\ now = 0
    /\ customers = <<>>
    /\ command_queue = <<>>
    /\ ad_call = NotCalled

A2aIdle ==
    /\ status = "none"
    /\ task_result = "None"
    /\ task_error = "None"
    /\ updated_at = 0
    /\ utcnow = 0
    /\ a2a_call = NotCalled

McpIdle ==
    /\ resources = <<>>
    /\ mcp_call = NotCalled

GrIdle ==
    /\ gr_call = NotCalled

SwIdle ==
    /\ window_size = 0
    /\ all_turns = <<>>
    /\ summarized_history = <<>>
    /\ added_turns = <<>>

(***************************************************************************)
(* knowledge_graph.py                                                      *)
(***************************************************************************)
\* Bounds of the model.
MaxRels == 3        \* relationships added to a graph
MaxDepthArg == 3    \* largest max_depth / max_hops passed explicitly
MaxPattern == 2     \* longest path_pattern passed to traverse

\* Entity ids used as source_id / target_id / start_id.
EntityIds == {"a", "b", "c"}

\* RelationType members used by the model (two of the enum's nine values).
RelationType == {"owns", "depends_on"}

\* The value of an omitted rel_type argument.
None == "None"

\* shortest_path's None result; a path is never empty, so <<>> encodes it.
NoPath == <<>>

\* Relationship: the fields the traversals read.  As in the example graph, a
\* relationship joins two different entities (cycles a -> b -> a included).
Relationship ==
    {r \in [source_id : EntityIds, target_id : EntityIds, rel_type : RelationType] :
        r.source_id # r.target_id}

\* traverse's default max_depth.
TraverseDefaultDepth == 10

\* KnowledgeGraph.__init__
KgInit ==
    /\ relationships = <<>>
    /\ outgoing = [e \in EntityIds |-> <<>>]
    /\ incoming = [e \in EntityIds |-> <<>>]
    /\ kg_call = NotCalled

\* KnowledgeGraph.add_relationship
add_relationship(rel) ==
    /\ Len(relationships) < MaxRels
    /\ relationships' = Append(relationships, rel)
    /\ outgoing' = [outgoing EXCEPT ![rel.source_id] = Append(@, rel)]
    /\ incoming' = [incoming EXCEPT ![rel.target_id] = Append(@, rel)]
    /\ kg_call' = [op |-> "add_relationship"]

\* get_outgoing with the rel_type filter left out.
get_outgoing_unfiltered(entity_id, rel_type) ==
    IF entity_id \in DOMAIN outgoing THEN outgoing[entity_id] ELSE <<>>

\* KnowledgeGraph.get_outgoing
get_outgoing(entity_id, rel_type) ==
    LET rels == IF entity_id \in DOMAIN outgoing THEN outgoing[entity_id] ELSE <<>>
    IN IF rel_type # None
       THEN SelectSeq(rels, LAMBDA r : r.rel_type = rel_type)
       ELSE rels

\* KnowledgeGraph.get_incoming
get_incoming(entity_id, rel_type) ==
    LET rels == IF entity_id \in DOMAIN incoming THEN incoming[entity_id] ELSE <<>>
    IN IF rel_type # None
       THEN SelectSeq(rels, LAMBDA r : r.rel_type = rel_type)
       ELSE rels

\* [start_id] + sub_path for every sub_path, in order.
PrependAll(start_id, sub_paths) ==
    [i \in 1..Len(sub_paths) |-> <<start_id>> \o sub_paths[i]]

\* KnowledgeGraph.traverse: the loop over the outgoing relationships is the
\* recursion over rels (from index i on), the recursive call the one of the code.
RECURSIVE traverse(_, _, _)
RECURSIVE traverse_rels(_, _, _, _, _)
traverse_rels(rels, i, start_id, remaining_pattern, max_depth) ==
    IF i > Len(rels) THEN <<>>
    ELSE LET rel == rels[i]
             here == IF remaining_pattern # <<>>
                     THEN PrependAll(start_id,
                              traverse(rel.target_id, remaining_pattern, max_depth - 1))
                     ELSE << <<start_id, rel.target_id>> >>
         IN here \o traverse_rels(rels, i + 1, start_id, remaining_pattern, max_depth)

traverse(start_id, path_pattern, max_depth) ==
    IF path_pattern = <<>> THEN << <<start_id>> >>
    ELSE traverse_rels(get_outgoing(start_id, Head(path_pattern)), 1,
                       start_id, Tail(path_pattern), max_depth)

\* shortest_path: the scan of one entity's outgoing relationships.  It ends with
\* the path found, or with the queue and the visited set after the scan.
RECURSIVE sp_scan(_, _, _, _, _, _)
sp_scan(rels, i, path, queue, visited, target_id) ==
    IF i > Len(rels) THEN [found |-> FALSE, queue |-> queue, visited |-> visited]
    ELSE LET rel == rels[i]
         IN IF rel.target_id = target_id
            THEN [found |-> TRUE, path |-> Append(path, target_id)]
            ELSE IF rel.target_id \notin visited
            THEN sp_scan(rels, i + 1, path,
                         Append(queue, <<rel.target_id, Append(path, rel.target_id)>>),
                         visited \cup {rel.target_id}, target_id)
            ELSE sp_scan(rels, i + 1, path, queue, visited, target_id)

\* The while loop with the depth test off by one (>= for >).
RECURSIVE sp_loop_strict(_, _, _, _)
sp_loop_strict(queue, visited, target_id, max_depth) ==
    IF queue = <<>> THEN NoPath
    ELSE LET current_id == Head(queue)[1]
             path == Head(queue)[2]
             rest == Tail(queue)
         IN IF Len(path) >= max_depth
            THEN sp_loop_strict(rest, visited, target_id, max_depth)
            ELSE LET r == sp_scan(get_outgoing(current_id, None), 1, path, rest,
                                  visited, target_id)
                 IN IF r.found THEN r.path
                    ELSE sp_loop_strict(r.queue, r.visited, target_id, max_depth)

\* shortest_path: the while loop over the queue.
RECURSIVE sp_loop(_, _, _, _)
sp_loop(queue, visited, target_id, max_depth) ==
    IF queue = <<>> THEN NoPath
    ELSE LET current_id == Head(queue)[1]
             path == Head(queue)[2]
             rest == Tail(queue)
         IN IF Len(path) > max_depth
            THEN sp_loop(rest, visited, target_id, max_depth)
            ELSE LET r == sp_scan(get_outgoing(current_id, None), 1, path, rest,
                                  visited, target_id)
                 IN IF r.found THEN r.path
                    ELSE sp_loop(r.queue, r.visited, target_id, max_depth)

\* KnowledgeGraph.shortest_path
shortest_path(source_id, target_id, max_depth) ==
    IF source_id = target_id THEN <<source_id>>
    ELSE sp_loop(<< <<source_id, <<source_id>> >> >>, {source_id}, target_id, max_depth)

\* A round that follows the outgoing relationships only.
fac_round_outgoing_only(st) ==
    LET out == {r.target_id : r \in
                   UNION {Range(get_outgoing(e, None)) : e \in st.frontier}}
        new_frontier == out \ st.visited
    IN [visited |-> st.visited \cup new_frontier, frontier |-> new_frontier]

\* find_all_connected: one round of the loop over range(max_hops).  The entities
\* a round adds do not depend on the order in which the frontier is iterated.
fac_round(st) ==
    LET out == {r.target_id : r \in
                   UNION {Range(get_outgoing(e, None)) : e \in st.frontier}}
        inc == {r.source_id : r \in
                   UNION {Range(get_incoming(e, None)) : e \in st.frontier}}
        new_frontier == (out \cup inc) \ st.visited
    IN [visited |-> st.visited \cup new_frontier, frontier |-> new_frontier]

RECURSIVE fac_loop(_, _)
fac_loop(st, n) == IF n <= 0 THEN st ELSE fac_loop(fac_round(st), n - 1)

\* KnowledgeGraph.find_all_connected
find_all_connected(start_id, max_hops) ==
    fac_loop([visited |-> {start_id}, frontier |-> {start_id}], max_hops).visited

\* The arguments the queries are called with.
DepthArgs == 0..MaxDepthArg
Patterns == SeqsUpTo(RelationType, MaxPattern)

\* A query leaves the graph as it is, so a query made after another query ends
\* in the state that query ends in when made first, and a relationship added
\* after a query yields the graph it yields when added before it.  The calls
\* are therefore taken while the graph is being built, each query ending a run:
\* the reachable graphs and (graph, query, result) triples are the same.
Building == kg_call.op \in {"none", "add_relationship"}

AddRelationship == \E rel \in Relationship :
    /\ Building
    /\ add_relationship(rel)
    /\ UNCHANGED kg_others

\* traverse(start_id, path_pattern), max_depth left at its default.
CallTraverse == \E s \in EntityIds, p \in Patterns :
    /\ Building
    /\ kg_call' = [op |-> "traverse", start_id |-> s, path_pattern |-> p,
                   max_depth |-> TraverseDefaultDepth,
                   result |-> traverse(s, p, TraverseDefaultDepth)]
    /\ UNCHANGED <<relationships, outgoing, incoming, kg_others>>

\* traverse(start_id, path_pattern, max_depth) with an explicit max_depth.
CallTraverseDepth == \E s \in EntityIds, p \in Patterns, d \in DepthArgs :
    /\ Building
    /\ kg_call' = [op |-> "traverse_depth", start_id |-> s, path_pattern |-> p,
                   max_depth |-> d, result |-> traverse(s, p, d)]
    /\ UNCHANGED <<relationships, outgoing, incoming, kg_others>>

CallShortestPath == \E s \in EntityIds, t \in EntityIds, d \in DepthArgs :
    /\ Building
    /\ kg_call' = [op |-> "shortest_path", source_id |-> s, target_id |-> t,
                   max_depth |-> d, result |-> shortest_path(s, t, d)]
    /\ UNCHANGED <<relationships, outgoing, incoming, kg_others>>

CallFindAllConnected == \E s \in EntityIds, h \in DepthArgs :
    /\ Building
    /\ kg_call' = [op |-> "find_all_connected", start_id |-> s, max_hops |-> h,
                   result |-> find_all_connected(s, h)]
    /\ UNCHANGED <<relationships, outgoing, incoming, kg_others>>

\* One specification per query of the graph, each over the graphs that
\* add_relationship builds.
NextTraverse == AddRelationship \/ CallTraverse
NextTraverseDepth == AddRelationship \/ CallTraverseDepth
NextShortestPath == AddRelationship \/ CallShortestPath
NextConnected == AddRelationship \/ CallFindAllConnected

InitGraph ==
    /\ KgInit
    /\ RrfIdle
    /\ HmIdle
    /\ VsIdle
    /\ FsmIdle
    /\ CpIdle
    /\ RtIdle
    /\ AdIdle
    /\ A2aIdle
    /\ McpIdle
    /\ GrIdle
    /\ SwIdle

SpecTraverse == InitGraph /\ [][NextTraverse]_vars
SpecTraverseDepth == InitGraph /\ [][NextTraverseDepth]_vars
SpecShortestPath == InitGraph /\ [][NextShortestPath]_vars
SpecConnected == InitGraph /\ [][NextConnected]_vars

(***************************************************************************)
(* Properties of the graph queries.  They are stated over the list of      *)
(* relationships itself, not over the indexes the queries read.            *)
(***************************************************************************)
Rels == Range(relationships)

\* Some relationship leads from x to y.
Edge(x, y) == \E r \in Rels : r.source_id = x /\ r.target_id = y

\* Some relationship of type ty leads from x to y.
TypedEdge(x, y, ty) ==
    \E r \in Rels : r.source_id = x /\ r.target_id = y /\ r.rel_type = ty

\* Some relationship joins x and y, in either direction.
Link(x, y) == Edge(x, y) \/ Edge(y, x)

\* The entity sequences of exactly n hops.
Walks(n) == [1..(n + 1) -> EntityIds]

IsDirectedPath(p) == \A i \in 1..(Len(p) - 1) : Edge(p[i], p[i + 1])

\* A directed path of exactly n hops leads from s to t.
PathOfHops(s, t, n) ==
    \E p \in Walks(n) : p[1] = s /\ p[n + 1] = t /\ IsDirectedPath(p)

\* e is within n hops of s when relationships are followed in either direction.
WithinHops(s, e, n) ==
    \E m \in 0..n : \E p \in Walks(m) :
        /\ p[1] = s
        /\ p[m + 1] = e
        /\ \A i \in 1..m : Link(p[i], p[i + 1])

\* C2: shortest_path(source, target, max_depth) returns [source] when source
\* equals target; otherwise, when a directed path of at most max_depth hops
\* exists, it returns a directed path from source to target whose number of
\* hops is the least for which such a path exists; otherwise it returns None.
C2_ShortestPath ==
    kg_call.op = "shortest_path" =>
        LET s == kg_call.source_id
            t == kg_call.target_id
            d == kg_call.max_depth
            res == kg_call.result
            hops == {n \in 0..d : PathOfHops(s, t, n)}
        IN IF s = t THEN res = <<s>>
           ELSE IF hops # {}
           THEN /\ res # NoPath
                /\ res[1] = s
                /\ res[Len(res)] = t
                /\ IsDirectedPath(res)
                /\ Len(res) - 1 \in hops
                /\ \A n \in hops : Len(res) - 1 <= n
           ELSE res = NoPath

\* C2 witness: the one-hop path is returned although the first relationship
\* scanned at the source leads elsewhere, onto a two-hop path to the target.
C2_Witness ==
    /\ kg_call.op = "shortest_path"
    /\ kg_call.max_depth = 2
    /\ Len(kg_call.result) = 2
    /\ outgoing[kg_call.source_id][1].target_id # kg_call.target_id
    /\ PathOfHops(kg_call.source_id, kg_call.target_id, 2)

\* C3: traverse(start_id, path_pattern) returns exactly the paths
\* [e0 = start_id, e1, ..., en], n = len(path_pattern), in which a relationship
\* of type path_pattern[i] leads from each entity to the next; it returns
\* [[start_id]] for the empty pattern and [] when there is no such path.
PatternPaths(s, pattern) ==
    {p \in Walks(Len(pattern)) :
        /\ p[1] = s
        /\ \A i \in 1..Len(pattern) : TypedEdge(p[i], p[i + 1], pattern[i])}

C3_Traverse ==
    kg_call.op = "traverse" =>
        LET s == kg_call.start_id
            pattern == kg_call.path_pattern
            res == kg_call.result
            expected == PatternPaths(s, pattern)
        IN /\ Range(res) = expected
           /\ pattern = <<>> => res = << <<s>> >>
           /\ expected = {} => res = <<>>

\* C3 witness: a two-step pattern of two different types yields a path, while
\* the start entity also has an outgoing relationship the pattern rules out.
C3_Witness ==
    /\ kg_call.op = "traverse"
    /\ Len(kg_call.path_pattern) = 2
    /\ kg_call.path_pattern[1] # kg_call.path_pattern[2]
    /\ kg_call.result # <<>>
    /\ \E r \in Rels : /\ r.source_id = kg_call.start_id
                       /\ r.rel_type # kg_call.path_pattern[1]

\* C4: traverse(start_id, path_pattern, max_depth) never returns a path with
\* more than max_depth hops, whatever the length of path_pattern.
C4_TraverseBounded ==
    kg_call.op = "traverse_depth" =>
        \A i \in 1..Len(kg_call.result) :
            Len(kg_call.result[i]) - 1 <= kg_call.max_depth

\* C5: find_all_connected(start_id, max_hops) returns exactly the entities
\* within max_hops hops of start_id when relationships are followed in either
\* direction; the set contains start_id, and a larger max_hops never yields a
\* smaller set.
C5_FindAllConnected ==
    kg_call.op = "find_all_connected" =>
        LET s == kg_call.start_id
            h == kg_call.max_hops
            res == kg_call.result
        IN /\ res = {e \in EntityIds : WithinHops(s, e, h)}
           /\ s \in res
           /\ \A h2 \in h..(MaxDepthArg + 1) : res \subseteq find_all_connected(s, h2)

\* C5 witness: from an entity with no outgoing relationship, two hops reach
\* every entity, one of them not within one hop.
C5_Witness ==
    /\ kg_call.op = "find_all_connected"
    /\ kg_call.max_hops = 2
    /\ kg_call.result = EntityIds
    /\ outgoing[kg_call.start_id] = <<>>
    /\ \E e \in EntityIds : ~WithinHops(kg_call.start_id, e, 1)

(***************************************************************************)
(* hybrid_retrieval.py: reciprocal_rank_fusion                             *)
(***************************************************************************)
\* Bounds of the model.
MaxLists == 2       \* ranked lists passed to one fusion
MaxListLen == 2     \* results in one ranked list

\* The default value of k.
DefaultK == 60

\* The item ids of the fused lists, and the values k is called with.
ItemIds == {"A", "B", "C"}
KArgs == {1, DefaultK}

\* MemoryItem: of an item the fusion reads its item_id only.
ItemOf(item_id) == [item_id |-> item_id]

\* RetrievalResult
RetrievalResult(item, score, source, rank) ==
    [item |-> item, score |-> score, source |-> source, rank |-> rank]

\* A ranked list as a retrieval source returns it, from the ids in rank order.
RankedList(ids, source) ==
    [i \in 1..Len(ids) |-> RetrievalResult(ItemOf(ids[i]), 0, source, i)]

\* The example of the walkthrough: vector ranks [A, B, C, D], graph ranks [C, A, E, F].
DemoLists ==
    << RankedList(<<"A", "B", "C", "D">>, "vector"),
       RankedList(<<"C", "A", "E", "F">>, "graph") >>

\* A score is a sum of fractions 1/(k + rank).  It is held exactly, as the
\* integer score * ScoreUnit, ScoreUnit being the product of the k + rank over
\* the ranks of the longest list; sums and comparisons are those of the scores.
LongestLen(lists) ==
    IF lists = <<>> THEN 0
    ELSE CHOOSE n \in {Len(lists[j]) : j \in 1..Len(lists)} :
            \A j \in 1..Len(lists) : Len(lists[j]) <= n

RECURSIVE ScoreUnitUpTo(_, _)
ScoreUnitUpTo(kk, n) == IF n = 0 THEN 1 ELSE (kk + n) * ScoreUnitUpTo(kk, n - 1)

ScoreUnit(lists, kk) == ScoreUnitUpTo(kk, LongestLen(lists))

\* The rank taken from the index with the index itself, 0 for the first result.
rrf_rank_zero_based(i) == i

\* rank = i + 1, i being enumerate's index (0 for the first result).
rrf_rank(i) == i + 1

\* rrf_contribution = 1.0 / (k + rank)
rrf_contribution(kk, rank, unit) == unit \div (kk + rank)

\* A score set to the contribution instead of increased by it.
rrf_overwrite(score, contribution) == contribution

\* rrf_scores[item_id] += rrf_contribution
rrf_add(score, contribution) == score + contribution

\* The dicts rrf_scores and item_map before the loops; order holds the keys in
\* insertion order, the order in which rrf_scores.items() yields them.
rrf_empty == [order |-> <<>>, rrf_scores |-> <<>>, item_map |-> <<>>]

\* for i, result in enumerate(results), from index i on.
RECURSIVE rrf_results(_, _, _, _, _)
rrf_results(acc, results, i, kk, unit) ==
    IF i >= Len(results) THEN acc
    ELSE LET result == results[i + 1]
             rank == rrf_rank(i)
             item_id == result.item.item_id
             seen == IF item_id \notin DOMAIN acc.rrf_scores
                     THEN [order |-> Append(acc.order, item_id),
                           rrf_scores |-> acc.rrf_scores @@ (item_id :> 0),
                           item_map |-> acc.item_map @@ (item_id :> result.item)]
                     ELSE acc
             added == [seen EXCEPT !.rrf_scores[item_id] =
                          rrf_add(@, rrf_contribution(kk, rank, unit))]
         IN rrf_results(added, results, i + 1, kk, unit)

\* for results in ranked_lists, from list j on.
RECURSIVE rrf_lists(_, _, _, _, _)
rrf_lists(acc, lists, j, kk, unit) ==
    IF j > Len(lists) THEN acc
    ELSE rrf_lists(rrf_results(acc, lists[j], 0, kk, unit), lists, j + 1, kk, unit)

\* reciprocal_rank_fusion
reciprocal_rank_fusion(lists, kk) ==
    LET acc == rrf_lists(rrf_empty, lists, 1, kk, ScoreUnit(lists, kk))
        items == [i \in 1..Len(acc.order) |->
                     <<acc.order[i], acc.rrf_scores[acc.order[i]]>>]
        higher == [i \in 1..Len(items) |-> [j \in 1..Len(items) |->
                      items[i][2] > items[j][2]]]
        sorted_items == SortedReverse(items, higher)
    IN [i \in 1..Len(sorted_items) |->
           RetrievalResult(acc.item_map[sorted_items[i][1]], sorted_items[i][2],
                           "hybrid_rrf", i)]

\* The ranked lists the fusion is called with.
RankedLists ==
    {[j \in 1..Len(ids) |-> RankedList(ids[j], "source")] :
        ids \in SeqsUpTo(SeqsUpTo(ItemIds, MaxListLen), MaxLists)}

RrfInit ==
    /\ ranked_lists \in RankedLists \cup {DemoLists}
    /\ k \in KArgs
    /\ rrf_call = NotCalled

Fuse ==
    /\ rrf_call = NotCalled
    /\ rrf_call' = [op |-> "reciprocal_rank_fusion",
                    result |-> reciprocal_rank_fusion(ranked_lists, k)]
    /\ UNCHANGED <<ranked_lists, k, rrf_others>>

NextRRF == Fuse

InitRRF ==
    /\ RrfInit
    /\ KgIdle
    /\ HmIdle
    /\ VsIdle
    /\ FsmIdle
    /\ CpIdle
    /\ RtIdle
    /\ AdIdle
    /\ A2aIdle
    /\ McpIdle
    /\ GrIdle
    /\ SwIdle

SpecRRF == InitRRF /\ [][NextRRF]_vars

(***************************************************************************)
(* Properties of the fusion.                                               *)
(***************************************************************************)
\* The fusion has been made, and what it returned.
Fused == rrf_call.op = "reciprocal_rank_fusion"
fused == rrf_call.result

\* The positions <<list, rank>> of the input at which item_id occurs.
Positions(item_id) ==
    {<<j, r>> \in (1..Len(ranked_lists)) \X (1..LongestLen(ranked_lists)) :
        /\ r <= Len(ranked_lists[j])
        /\ ranked_lists[j][r].item.item_id = item_id}

InputIds == UNION {{ranked_lists[j][r].item.item_id : r \in 1..Len(ranked_lists[j])} :
                      j \in 1..Len(ranked_lists)}

\* The sum of unit/(kk + rank) over the positions <<list, rank>> of S.
RECURSIVE SumOfFractions(_, _, _)
SumOfFractions(S, kk, unit) ==
    IF S = {} THEN 0
    ELSE LET p == CHOOSE q \in S : TRUE
         IN (unit \div (kk + p[2])) + SumOfFractions(S \ {p}, kk, unit)

FusedIds == [i \in 1..Len(fused) |-> fused[i].item.item_id]

\* C1: reciprocal_rank_fusion gives every item of the input lists the score
\* that is the sum of 1/(k + rank) over all positions (list, 1-indexed rank) at
\* which its item_id occurs.
C1_RrfScore ==
    Fused =>
        LET unit == ScoreUnit(ranked_lists, k)
        IN /\ \A id \in InputIds : \E i \in 1..Len(fused) : fused[i].item.item_id = id
           /\ \A i \in 1..Len(fused) :
                 /\ \A p \in Positions(fused[i].item.item_id) : unit % (k + p[2]) = 0
                 /\ fused[i].score =
                       SumOfFractions(Positions(fused[i].item.item_id), k, unit)

\* C1 witness: an item that occurs at rank 1 of one list and rank 2 of another
\* has been given its score.
C1_Witness ==
    /\ Fused
    /\ \E i \in 1..Len(fused) :
          LET ps == Positions(fused[i].item.item_id)
          IN \E p \in ps, q \in ps : p[1] # q[1] /\ p[2] = 1 /\ q[2] = 2

\* The first position of an item in the input, lists in order.
FirstPosition(item_id) ==
    CHOOSE p \in Positions(item_id) :
        \A q \in Positions(item_id) : p[1] < q[1] \/ (p[1] = q[1] /\ p[2] <= q[2])

AppearsBefore(id1, id2) ==
    LET p == FirstPosition(id1)
        q == FirstPosition(id2)
    IN p[1] < q[1] \/ (p[1] = q[1] /\ p[2] < q[2])

\* C6: the output of reciprocal_rank_fusion holds each distinct item_id of the
\* inputs exactly once and no other item, is ordered by non-increasing score,
\* items of equal score in the order of their first appearance in the inputs,
\* and carries the ranks 1, 2, ..., n in list order.
C6_RrfOutput ==
    Fused =>
        /\ Range(FusedIds) = InputIds
        /\ \A i, j \in 1..Len(fused) : i # j => FusedIds[i] # FusedIds[j]
        /\ \A i \in 1..Len(fused) : fused[i].rank = i
        /\ \A i, j \in 1..Len(fused) : i < j =>
              /\ fused[i].score >= fused[j].score
              /\ fused[i].score = fused[j].score => AppearsBefore(FusedIds[i], FusedIds[j])

\* C6 witness: two items of equal score were fused, each at rank 1 of one list
\* and at rank 2 of the other, and the one of the first list comes first.
C6_Witness ==
    /\ Fused
    /\ Len(ranked_lists) = 2
    /\ Len(ranked_lists[1]) = 2
    /\ Len(ranked_lists[2]) = 2
    /\ Len(fused) = 2
    /\ fused[1].score = fused[2].score
    /\ ranked_lists[1][1].item.item_id = FusedIds[1]
    /\ ranked_lists[2][1].item.item_id = FusedIds[2]

DemoFused == ranked_lists = DemoLists /\ k = DefaultK /\ Fused

MaxStored == 3      \* items stored in a memory system
MaxLimit == 2       \* largest limit passed to hybrid_retrieve

\* MemoryTier
MemoryTier == {"episodic", "semantic", "procedural"}

UserIds == {"u1"}
EntityNames == {"e1", "e2"}
TaskTypes == {"t1"}

\* The first ten dimensions of an embedding enter the mock similarity.
EmbeddingDims == 10

\* MemoryItem: the fields the retrievals read.  An absent user_id or task type
\* is None; an absent timestamp is 0 and an absent success_rate is 0, values
\* the code treats as it treats None (both are falsy).  success_rate is in
\* percent, a timestamp a day number.
MemoryItem(item_id, tier, embedding, timestamp, user_id, entities, task_type, rate, uses) ==
    [item_id |-> item_id, tier |-> tier, embedding |-> embedding,
     timestamp |-> timestamp, user_id |-> user_id, entities |-> entities,
     task_type |-> task_type, success_rate |-> rate, use_count |-> uses]

\* The items that are stored.  Two of them share the item_id s1.
MemoryItems ==
    { MemoryItem("s1", "semantic", <<1, 0>>, 0, None, <<"e1">>, None, 0, 0),
      MemoryItem("s2", "semantic", <<1, 1>>, 0, None, <<"e1", "e2">>, None, 0, 0),
      MemoryItem("s3", "semantic", <<>>, 0, None, <<"e2">>, None, 0, 0),
      MemoryItem("p1", "episodic", <<>>, 2, "u1", <<"e1">>, None, 0, 0),
      MemoryItem("p2", "episodic", <<>>, 1, "u1", <<>>, None, 0, 0),
      MemoryItem("p3", "episodic", <<>>, 0, "u1", <<>>, None, 0, 0),
      MemoryItem("r1", "procedural", <<>>, 0, None, <<>>, "t1", 95, 1),
      MemoryItem("r2", "procedural", <<>>, 0, None, <<"e2">>, "t1", 0, 2),
      MemoryItem("s1", "procedural", <<>>, 0, None, <<"e1">>, "t1", 95, 3) }

\* A source's score, the fraction num/den.
Fraction(num, den) == <<num, den>>

Abs(x) == IF x < 0 THEN -x ELSE x

\* HybridMemorySystem.__init__
HmInit ==
    /\ memories = <<>>
    /\ by_tier = [t \in MemoryTier |-> <<>>]
    /\ by_user = <<>>
    /\ entity_to_memories = <<>>
    /\ hm_call = NotCalled

\* d[key].append(value), the list being created when key is new.
AppendAt(d, key, value) ==
    IF key \in DOMAIN d THEN [d EXCEPT ![key] = Append(@, value)]
    ELSE d @@ (key :> <<value>>)

\* d.get(key, [])
GetList(d, key) == IF key \in DOMAIN d THEN d[key] ELSE <<>>

\* store: for entity in item.metadata.get("entities", []), from index i on.
RECURSIVE index_entities(_, _, _)
index_entities(index, item, i) ==
    IF i > Len(item.entities) THEN index
    ELSE index_entities(AppendAt(index, item.entities[i], item.item_id), item, i + 1)

\* HybridMemorySystem.store
store(item) ==
    /\ memories' = IF item.item_id \in DOMAIN memories
                   THEN [memories EXCEPT ![item.item_id] = item]
                   ELSE memories @@ (item.item_id :> item)
    /\ by_tier' = [by_tier EXCEPT ![item.tier] = Append(@, item)]
    /\ by_user' = IF item.user_id # None
                  THEN AppendAt(by_user, item.user_id, item)
                  ELSE by_user
    /\ entity_to_memories' = index_entities(entity_to_memories, item, 1)

\* HybridMemorySystem.retrieve_episodic (session_id left at None)
retrieve_episodic(user_id, limit) ==
    LET stamped == SelectSeq(GetList(by_user, user_id), LAMBDA m : m.timestamp # 0)
        newer == [i \in 1..Len(stamped) |-> [j \in 1..Len(stamped) |->
                     stamped[i].timestamp > stamped[j].timestamp]]
        recent == Take(SortedReverse(stamped, newer), limit)
    IN [i \in 1..Len(recent) |->
           RetrievalResult(recent[i], Fraction(1, i), "episodic", i)]

\* sum(a * b for a, b in zip(u, v)), from index i on.
RECURSIVE DotProduct(_, _, _)
DotProduct(u, v, i) ==
    IF i > Len(u) \/ i > Len(v) THEN 0
    ELSE u[i] * v[i] + DotProduct(u, v, i + 1)

\* HybridMemorySystem.retrieve_semantic
retrieve_semantic(query_embedding, limit) ==
    LET embedded == SelectSeq(by_tier["semantic"], LAMBDA m : m.embedding # <<>>)
        results == [i \in 1..Len(embedded) |->
                       <<embedded[i],
                         Abs(DotProduct(Take(query_embedding, EmbeddingDims),
                                        Take(embedded[i].embedding, EmbeddingDims), 1))>>]
        closer == [i \in 1..Len(results) |-> [j \in 1..Len(results) |->
                      results[i][2] > results[j][2]]]
        top == Take(SortedReverse(results, closer), limit)
    IN [i \in 1..Len(top) |->
           RetrievalResult(top[i][1], Fraction(top[i][2], 10), "semantic_vector", i)]

\* HybridMemorySystem.retrieve_by_entity
retrieve_by_entity(entity, limit) ==
    LET memory_ids == SelectSeq(GetList(entity_to_memories, entity),
                                LAMBDA mid : mid \in DOMAIN memories)
        found == Take([i \in 1..Len(memory_ids) |-> memories[memory_ids[i]]], limit)
    IN [i \in 1..Len(found) |->
           RetrievalResult(found[i], Fraction(1, i), "graph_entity", i)]

\* HybridMemorySystem.retrieve_procedural
retrieve_procedural(task_type, limit) ==
    LET relevant == SelectSeq(by_tier["procedural"], LAMBDA m : m.task_type = task_type)
        better == [i \in 1..Len(relevant) |-> [j \in 1..Len(relevant) |->
                      \/ relevant[i].success_rate > relevant[j].success_rate
                      \/ /\ relevant[i].success_rate = relevant[j].success_rate
                         /\ relevant[i].use_count > relevant[j].use_count]]
        best == Take(SortedReverse(relevant, better), limit)
    IN [i \in 1..Len(best) |->
           RetrievalResult(best[i],
                           Fraction(IF best[i].success_rate # 0
                                    THEN best[i].success_rate ELSE 50, 100),
                           "procedural", i)]

\* hybrid_retrieve: for entity in entities, from index i on.
RECURSIVE entity_lists(_, _, _)
entity_lists(entities, limit, i) ==
    IF i > Len(entities) THEN <<>>
    ELSE LET entity_results == retrieve_by_entity(entities[i], limit)
         IN (IF entity_results # <<>> THEN <<entity_results>> ELSE <<>>)
            \o entity_lists(entities, limit, i + 1)

\* hybrid_retrieve: the ranked lists handed to the fusion.
hybrid_ranked_lists(query_embedding, user_id, entities, task_type, limit) ==
    LET semantic_results == retrieve_semantic(query_embedding, limit)
        episodic_results == retrieve_episodic(user_id, limit)
        procedural_results == retrieve_procedural(task_type, limit)
    IN (IF semantic_results # <<>> THEN <<semantic_results>> ELSE <<>>)
       \o (IF user_id # None /\ episodic_results # <<>>
           THEN <<episodic_results>> ELSE <<>>)
       \o (IF entities # <<>> THEN entity_lists(entities, limit, 1) ELSE <<>>)
       \o (IF task_type # None /\ procedural_results # <<>>
           THEN <<procedural_results>> ELSE <<>>)

\* hybrid_retrieve returning the whole fused list.
hybrid_retrieve_unsliced(query_embedding, user_id, entities, task_type, limit) ==
    LET lists == hybrid_ranked_lists(query_embedding, user_id, entities, task_type, limit)
    IN IF lists = <<>> THEN <<>>
       ELSE reciprocal_rank_fusion(lists, DefaultK)

\* HybridMemorySystem.hybrid_retrieve; entities = None is the empty list, which
\* the code treats alike.
hybrid_retrieve(query_embedding, user_id, entities, task_type, limit) ==
    LET lists == hybrid_ranked_lists(query_embedding, user_id, entities, task_type, limit)
    IN IF lists = <<>> THEN <<>>
       ELSE Take(reciprocal_rank_fusion(lists, DefaultK), limit)

\* The arguments hybrid_retrieve is called with.
QueryEmbeddings == {<<1, 0>>, <<1, 1>>}
EntityArgs == {<<>>, <<"e1">>, <<"e1", "e2">>}

\* A retrieval leaves the memory system as it is: as for the graph, the calls
\* are taken while the store is being filled, a retrieval ending a run.
Storing == hm_call.op \in {"none", "store"}

Store == \E item \in MemoryItems :
    /\ Storing
    /\ Len(by_tier["episodic"]) + Len(by_tier["semantic"])
           + Len(by_tier["procedural"]) < MaxStored
    /\ store(item)
    /\ hm_call' = [op |-> "store"]
    /\ UNCHANGED hm_others

HybridRetrieve ==
    \E q \in QueryEmbeddings, u \in UserIds \cup {None}, es \in EntityArgs,
       t \in TaskTypes \cup {None}, limit \in 0..MaxLimit :
        /\ Storing
        /\ hm_call' = [op |-> "hybrid_retrieve", query_embedding |-> q, user_id |-> u,
                       entities |-> es, task_type |-> t, limit |-> limit,
                       result |-> hybrid_retrieve(q, u, es, t, limit)]
        /\ UNCHANGED <<memories, by_tier, by_user, entity_to_memories, hm_others>>

NextHybrid == Store \/ HybridRetrieve

InitHybrid ==
    /\ HmInit
    /\ KgIdle
    /\ RrfIdle
    /\ VsIdle
    /\ FsmIdle
    /\ CpIdle
    /\ RtIdle
    /\ AdIdle
    /\ A2aIdle
    /\ McpIdle
    /\ GrIdle
    /\ SwIdle

SpecHybrid == InitHybrid /\ [][NextHybrid]_vars

(***************************************************************************)
(* Properties of the hybrid retrieval.                                     *)
(***************************************************************************)
\* Every item passed to store.
StoredItems == UNION {Range(by_tier[t]) : t \in MemoryTier}

\* What the enabled sources retrieve for the arguments of the call.
SourceRetrievals(call) ==
    {retrieve_semantic(call.query_embedding, call.limit)}
    \cup (IF call.user_id # None
          THEN {retrieve_episodic(call.user_id, call.limit)} ELSE {})
    \cup {retrieve_by_entity(call.entities[i], call.limit) : i \in 1..Len(call.entities)}
    \cup (IF call.task_type # None
          THEN {retrieve_procedural(call.task_type, call.limit)} ELSE {})

\* C8: hybrid_retrieve returns at most limit results; every result is a stored
\* item that occurs in the retrieval of at least one enabled source (semantic;
\* the user's history when user_id is given; each named entity; procedural
\* patterns when task_type is given); no item_id occurs twice; the ranks are
\* 1..n; and the result is empty exactly when no enabled source yields a result.
C8_HybridRetrieve ==
    hm_call.op = "hybrid_retrieve" =>
        LET res == hm_call.result
            sources == SourceRetrievals(hm_call)
        IN /\ Len(res) <= hm_call.limit
           /\ \A i \in 1..Len(res) :
                 /\ res[i].item \in StoredItems
                 /\ \E src \in sources : \E j \in 1..Len(src) : src[j].item = res[i].item
                 /\ res[i].rank = i
           /\ \A i, j \in 1..Len(res) :
                 i # j => res[i].item.item_id # res[j].item.item_id
           /\ (res = <<>>) <=> (\A src \in sources : src = <<>>)

\* C8 witness: with a user, entities and a task type given, the sources hold
\* three different item ids and the two best are returned for limit = 2.
C8_Witness ==
    /\ hm_call.op = "hybrid_retrieve"
    /\ hm_call.limit = 2
    /\ hm_call.user_id # None
    /\ hm_call.task_type # None
    /\ hm_call.entities # <<>>
    /\ Len(hm_call.result) = 2
    /\ Cardinality(UNION {{src[j].item.item_id : j \in 1..Len(src)} :
                             src \in SourceRetrievals(hm_call)}) = 3

(***************************************************************************)
(* vector_search.py: SimpleVectorStore                                     *)
(***************************************************************************)
\* Bounds of the model.
MaxDocs == 3        \* calls of add_document
MaxTopK == 2        \* largest top_k passed to similarity_search

\* A dict with no key: empty metadata, and an absent or empty metadata_filter
\* (None and {} are both falsy).
EmptyDict == [key \in {} |-> key]

\* Document: the fields the search reads.
Document(doc_id, embedding, metadata) ==
    [doc_id |-> doc_id, embedding |-> embedding, metadata |-> metadata]

\* SearchResult
SearchResult(document, similarity_score, rank) ==
    [document |-> document, similarity_score |-> similarity_score, rank |-> rank]

\* The documents that are added.  Two share the doc_id d1, two have parallel
\* embeddings, one has the zero embedding and one another dimension.
Documents ==
    { Document("d1", <<1, 0>>, [category |-> "policy"]),
      Document("d2", <<1, 1>>, [category |-> "policy", lang |-> "en"]),
      Document("d3", <<0, 1>>, [category |-> "guide", lang |-> "en"]),
      Document("d1", <<-1, 0>>, EmptyDict),
      Document("d4", <<0, 0>>, [category |-> "policy"]),
      Document("d5", <<2, 2>>, [category |-> "policy"]),
      Document("d6", <<1>>, [lang |-> "en"]) }

\* SimpleVectorStore.__init__
VsInit ==
    /\ documents = <<>>
    /\ vs_call = NotCalled

\* SimpleVectorStore.add_document: self._documents[doc.doc_id] = doc.  A key
\* already in the dict keeps its place, a new key comes last.
add_document(doc) ==
    documents' =
        IF \E i \in 1..Len(documents) : documents[i].doc_id = doc.doc_id
        THEN [i \in 1..Len(documents) |->
                 IF documents[i].doc_id = doc.doc_id THEN doc ELSE documents[i]]
        ELSE Append(documents, doc)

\* SimpleVectorStore._cosine_similarity for vectors of one dimension.  The
\* cosine dot/(|a||b|) is held exactly by its signed square, the fraction
\* <<sign(dot) * dot^2, |a|^2 * |b|^2>>, which orders as the cosine does;
\* 0.0, the result for a zero vector, is <<0, 1>>.
cosine_similarity(vec_a, vec_b) ==
    LET dot_product == DotProduct(vec_a, vec_b, 1)
        square_a == DotProduct(vec_a, vec_a, 1)
        square_b == DotProduct(vec_b, vec_b, 1)
    IN IF square_a = 0 \/ square_b = 0 THEN <<0, 1>>
       ELSE <<(IF dot_product < 0 THEN -1 ELSE 1) * dot_product * dot_product,
              square_a * square_b>>

\* x > y for two similarities.
SimGreater(x, y) == x[1] * y[2] > y[1] * x[2]

\* A filter that one matching key satisfies.
matches_filter_any(metadata, filter_dict) ==
    \E key \in DOMAIN filter_dict :
        key \in DOMAIN metadata /\ metadata[key] = filter_dict[key]

\* SimpleVectorStore._matches_filter
matches_filter(metadata, filter_dict) ==
    ~\E key \in DOMAIN filter_dict :
        key \notin DOMAIN metadata \/ metadata[key] # filter_dict[key]

\* What a call that raised ValueError leaves in place of a result.
ValueError == [raised |-> "ValueError"]

\* SimpleVectorStore.similarity_search
similarity_search(query_embedding, top_k, metadata_filter) ==
    LET kept == SelectSeq(documents,
                    LAMBDA doc : \/ metadata_filter = EmptyDict
                                 \/ matches_filter(doc.metadata, metadata_filter))
    IN IF \E i \in 1..Len(kept) : Len(kept[i].embedding) # Len(query_embedding)
       THEN ValueError
       ELSE LET results == [i \in 1..Len(kept) |->
                               <<kept[i],
                                 cosine_similarity(query_embedding, kept[i].embedding)>>]
                closer == [i \in 1..Len(results) |-> [j \in 1..Len(results) |->
                              SimGreater(results[i][2], results[j][2])]]
                top == Take(SortedReverse(results, closer), top_k)
            IN [raised |-> "no",
                results |-> [i \in 1..Len(top) |-> SearchResult(top[i][1], top[i][2], i)]]

\* The arguments similarity_search is called with.
SearchQueries == {<<1, 0>>, <<1, 1>>, <<0, 0>>}
MetadataFilters ==
    {EmptyDict, [category |-> "policy"], [category |-> "policy", lang |-> "en"]}

\* A search leaves the store as it is: the calls are taken while the store is
\* being filled, a search ending a run.
Adding == vs_call.op \in {"none", "add_document"}

AddDocument == \E doc \in Documents :
    /\ Adding
    /\ Len(documents) < MaxDocs
    /\ add_document(doc)
    /\ vs_call' = [op |-> "add_document"]
    /\ UNCHANGED vs_others

SimilaritySearch ==
    \E q \in SearchQueries, top_k \in 0..MaxTopK, f \in MetadataFilters :
        /\ Adding
        /\ vs_call' = [op |-> "similarity_search", query_embedding |-> q,
                       top_k |-> top_k, metadata_filter |-> f,
                       returned |-> similarity_search(q, top_k, f)]
        /\ UNCHANGED <<documents, vs_others>>

NextVector == AddDocument \/ SimilaritySearch

InitVector ==
    /\ VsInit
    /\ KgIdle
    /\ RrfIdle
    /\ HmIdle
    /\ FsmIdle
    /\ CpIdle
    /\ RtIdle
    /\ AdIdle
    /\ A2aIdle
    /\ McpIdle
    /\ GrIdle
    /\ SwIdle

SpecVector == InitVector /\ [][NextVector]_vars

(***************************************************************************)
(* Properties of the similarity search.                                    *)
(***************************************************************************)
\* similarity_search returned a list (it did not raise).
Searched == vs_call.op = "similarity_search" /\ vs_call.returned.raised = "no"
found == vs_call.returned.results

\* The metadata equals the filter on every key of the filter.
FilteredIn(doc) ==
    \A key \in DOMAIN vs_call.metadata_filter :
        key \in DOMAIN doc.metadata /\ doc.metadata[key] = vs_call.metadata_filter[key]

SimilarityOf(doc) == cosine_similarity(vs_call.query_embedding, doc.embedding)

\* C7: similarity_search(query, top_k, metadata_filter) returns at most top_k
\* results, each a stored document whose metadata equals the filter on every
\* filter key, in order of non-increasing cosine similarity to the query and
\* with ranks 1..n; no document that passes the filter and is left out has a
\* higher similarity than a returned one; no doc_id appears twice.
C7_SimilaritySearch ==
    Searched =>
        /\ Len(found) <= vs_call.top_k
        /\ \A i \in 1..Len(found) :
              /\ found[i].document \in Range(documents)
              /\ FilteredIn(found[i].document)
              /\ found[i].similarity_score = SimilarityOf(found[i].document)
              /\ found[i].rank = i
        /\ \A i, j \in 1..Len(found) :
              /\ i < j => ~SimGreater(found[j].similarity_score, found[i].similarity_score)
              /\ i # j => found[i].document.doc_id # found[j].document.doc_id
        /\ \A doc \in Range(documents) :
              (FilteredIn(doc) /\ \A i \in 1..Len(found) : found[i].document # doc)
                  => \A i \in 1..Len(found) :
                        ~SimGreater(SimilarityOf(doc), found[i].similarity_score)

\* C7 witness: under a filter, the one result asked for is returned, a document
\* that passes the filter is left out for its lower similarity, and a stored
\* document fails the filter.
C7_Witness ==
    /\ Searched
    /\ vs_call.metadata_filter # EmptyDict
    /\ vs_call.top_k = 1
    /\ Len(found) = 1
    /\ \E doc \in Range(documents) :
          /\ FilteredIn(doc)
          /\ SimGreater(found[1].similarity_score, SimilarityOf(doc))
    /\ \E doc \in Range(documents) : ~FilteredIn(doc)

(***************************************************************************)
(* basic_fsm.py: StateMachine                                              *)
(***************************************************************************)
\* Bound of the model.
MaxHistory == 9     \* transitions logged by one state machine

\* State
State == {"received", "processing", "validated", "completed", "failed", "retry"}

\* StateMachine.TRANSITIONS
TRANSITIONS ==
    [s \in State |->
        CASE s = "received" -> <<"processing">>
          [] s = "processing" -> <<"validated", "failed">>
          [] s = "validated" -> <<"completed", "failed">>
          [] s = "failed" -> <<"retry">>
          [] s = "retry" -> <<"processing">>
          [] s = "completed" -> <<>>]

\* StateMachine.__init__
FsmInit ==
    /\ state = "received"
    /\ history = <<>>
    /\ fsm_call = NotCalled

\* A check for to_state among the keys of TRANSITIONS instead of the list of
\* the current state.
can_transition_to_any_key(to_state) == to_state \in DOMAIN TRANSITIONS

\* StateMachine.can_transition
can_transition(to_state) ==
    to_state \in Range(IF state \in DOMAIN TRANSITIONS THEN TRANSITIONS[state] ELSE <<>>)

\* A transition that appends to the history before it checks the transition.
transition_log_first(to_state) ==
    /\ history' = Append(history, <<state, to_state>>)
    /\ IF ~can_transition(to_state)
       THEN /\ fsm_call' = [op |-> "transition", to_state |-> to_state, returned |-> FALSE]
            /\ UNCHANGED state
       ELSE /\ state' = to_state
            /\ fsm_call' = [op |-> "transition", to_state |-> to_state, returned |-> TRUE]

\* StateMachine.transition.  A history entry is (datetime.now(), from, to); the
\* time of an entry is read nowhere and is left out.
transition(to_state) ==
    IF ~can_transition(to_state)
    THEN /\ fsm_call' = [op |-> "transition", to_state |-> to_state, returned |-> FALSE]
         /\ UNCHANGED <<state, history>>
    ELSE /\ history' = Append(history, <<state, to_state>>)
         /\ state' = to_state
         /\ fsm_call' = [op |-> "transition", to_state |-> to_state, returned |-> TRUE]

Transition == \E to_state \in State :
    /\ Len(history) < MaxHistory
    /\ transition(to_state)
    /\ UNCHANGED fsm_others

NextFSM == Transition

InitFSM ==
    /\ FsmInit
    /\ KgIdle
    /\ RrfIdle
    /\ HmIdle
    /\ VsIdle
    /\ CpIdle
    /\ RtIdle
    /\ AdIdle
    /\ A2aIdle
    /\ McpIdle
    /\ GrIdle
    /\ SwIdle

SpecFSM == InitFSM /\ [][NextFSM]_vars

(***************************************************************************)
(* Properties of the state machine.                                        *)
(***************************************************************************)
\* to_state is listed in TRANSITIONS for the state s.
Listed(s, to_state) == \E i \in 1..Len(TRANSITIONS[s]) : TRANSITIONS[s][i] = to_state

\* C10: transition(to_state) returns True and sets the state to to_state if
\* and only if to_state is listed in TRANSITIONS for the current state;
\* otherwise it returns False and leaves the state and the history unchanged.
\* No transition succeeds from COMPLETED.
C10_Transition ==
    [][LET to_state == fsm_call'.to_state
           returned == fsm_call'.returned
       IN /\ returned <=> Listed(state, to_state)
          /\ returned => state' = to_state
          /\ ~returned => state' = state /\ history' = history
          /\ state = "completed" => ~returned]_fsm_vars

\* C10 witness: after three successful transitions the machine is COMPLETED and
\* has rejected a transition.
C10_Witness ==
    /\ state = "completed"
    /\ Len(history) = 3
    /\ fsm_call.op = "transition"
    /\ ~fsm_call.returned

\* The history is a chain of allowed pairs from RECEIVED to the current state.
HistoryChain ==
    /\ \A i \in 1..Len(history) : Listed(history[i][1], history[i][2])
    /\ Len(history) > 0 => history[1][1] = "received"
    /\ \A i \in 2..Len(history) : history[i][1] = history[i - 1][2]
    /\ Len(history) > 0 => history[Len(history)][2] = state
    /\ Len(history) = 0 => state = "received"

\* One call of transition: a successful one appends exactly the entry
\* (from, to), a rejected one leaves the history as it was.
HistoryStep ==
    /\ fsm_call'.returned => history' = Append(history, <<state, fsm_call'.to_state>>)
    /\ ~fsm_call'.returned => history' = history

\* C11: after any sequence of transition calls, history holds one entry per
\* successful transition and none for rejected ones, every entry (from, to) is
\* a pair allowed by TRANSITIONS, the first entry starts at RECEIVED, each
\* entry starts where the previous one ended, and the last entry ends at the
\* current state.
C11_HistoryLog == []HistoryChain /\ [][HistoryStep]_fsm_vars

\* C11 witness: the history holds the retry loop (five entries through FAILED
\* and RETRY back to PROCESSING) and the last call was rejected.
C11_Witness ==
    /\ Len(history) = 5
    /\ \E i \in 1..Len(history) : history[i] = <<"failed", "retry">>
    /\ state = "validated"
    /\ fsm_call.op = "transition"
    /\ ~fsm_call.returned

(***************************************************************************)
(* checkpointing.py: CheckpointStore, CheckpointedWorkflow, run_workflow   *)
(***************************************************************************)
\* Bound of the model.
MaxRuns == 3        \* calls of run_workflow

\* CheckpointedWorkflow.STEPS
STEPS == <<"extract", "transform", "validate", "enrich", "complete">>

WorkflowIds == {"doc-001", "doc-002"}

\* The values of fail_at: a step, or None.
FailAts == Range(STEPS) \cup {None}

\* The dicts passed as initial data.  A dict is a function from its keys; the
\* second one holds a key that the validate step also writes.
InitialData ==
    { ("document" :> "invoice.pdf"),
      ("document" :> "contract.pdf") @@ ("valid" :> "unchecked") }

\* WorkflowState; created_at and updated_at are written and never read.
WorkflowState(workflow_id, current_step, data, completed) ==
    [workflow_id |-> workflow_id, current_step |-> current_step,
     data |-> data, completed |-> completed]

\* json.dumps of a dict with string keys and values: the set of its items.
json_dumps(data) == {<<key, data[key]>> : key \in DOMAIN data}

\* json.loads of such a text.
json_loads(text) ==
    [key \in {item[1] : item \in text} |-> (CHOOSE item \in text : item[1] = key)[2]]

\* CheckpointStore.__init__ on a new database file: an empty table.
CpInit ==
    /\ checkpoints = <<>>
    /\ runs = <<>>

\* CheckpointStore.save: INSERT OR REPLACE of the row of state.workflow_id.
save(table, st) ==
    (st.workflow_id :> [current_step |-> st.current_step,
                        data |-> json_dumps(st.data),
                        completed |-> IF st.completed THEN 1 ELSE 0]) @@ table

\* CheckpointStore.load, for a workflow_id that has a row.
load(table, workflow_id) ==
    WorkflowState(workflow_id, table[workflow_id].current_step,
                  json_loads(table[workflow_id].data),
                  table[workflow_id].completed # 0)

\* CheckpointStore.delete
delete(table, workflow_id) ==
    [w \in DOMAIN table \ {workflow_id} |-> table[w]]

\* CheckpointedWorkflow._get_step_index, counted from 1.
get_step_index(step) ==
    IF step \in Range(STEPS) THEN CHOOSE i \in 1..Len(STEPS) : STEPS[i] = step ELSE 1

\* A start that never looks for a checkpoint.
start_or_resume_fresh(table, workflow_id, initial_data) ==
    LET st == WorkflowState(workflow_id, STEPS[1], initial_data, FALSE)
    IN [state |-> st, store |-> save(table, st), resumed |-> FALSE]

\* CheckpointedWorkflow.start_or_resume: the workflow state and the table
\* after the call.
start_or_resume(table, workflow_id, initial_data) ==
    IF workflow_id \in DOMAIN table /\ ~load(table, workflow_id).completed
    THEN [state |-> load(table, workflow_id), store |-> table, resumed |-> TRUE]
    ELSE LET st == WorkflowState(workflow_id, STEPS[1], initial_data, FALSE)
         IN [state |-> st, store |-> save(table, st), resumed |-> FALSE]

\* CheckpointedWorkflow.advance: the workflow state after the call, which is
\* also the state saved.
advance(st, step_result) ==
    LET current_index == get_step_index(st.current_step)
        data == step_result @@ st.data
    IN IF current_index < Len(STEPS)
       THEN WorkflowState(st.workflow_id, STEPS[current_index + 1], data, st.completed)
       ELSE WorkflowState(st.workflow_id, st.current_step, data, TRUE)

\* simulate_step, for a step that is not fail_at: the dict it returns.
simulate_step(step) ==
    CASE step = "extract" -> ("extracted_fields" :> "title,date,amount")
      [] step = "transform" -> ("transformed" :> "True") @@ ("format" :> "normalized")
      [] step = "validate" -> ("valid" :> "True") @@ ("errors" :> "[]")
      [] step = "enrich" -> ("enriched" :> "True") @@ ("external_data" :> "category=invoice")
      [] step = "complete" -> ("status" :> "completed")
      [] OTHER -> <<>>

\* The loop of run_workflow: executed lists the steps simulate_step has run.
RECURSIVE run_loop(_, _, _, _)
run_loop(st, table, fail_at, executed) ==
    IF st.completed
    THEN [state |-> st, store |-> table, executed |-> executed, crashed |-> FALSE]
    ELSE IF st.current_step = fail_at
    THEN [state |-> st, store |-> table, executed |-> executed, crashed |-> TRUE]
    ELSE LET next == advance(st, simulate_step(st.current_step))
         IN run_loop(next, save(table, next), fail_at, Append(executed, st.current_step))

\* run_workflow
run_workflow(workflow_id, data, fail_at) ==
    LET started == start_or_resume(checkpoints, workflow_id, data)
        out == run_loop(started.state, started.store, fail_at, <<>>)
    IN /\ checkpoints' = IF out.crashed THEN out.store ELSE delete(out.store, workflow_id)
       /\ runs' = Append(runs,
             [workflow_id |-> workflow_id, data |-> data, fail_at |-> fail_at,
              resumed |-> started.resumed,
              start_step |-> started.state.current_step,
              start_data |-> started.state.data,
              executed |-> out.executed,
              crashed |-> out.crashed,
              end_step |-> out.state.current_step,
              end_data |-> out.state.data])

RunWorkflow == \E workflow_id \in WorkflowIds, data \in InitialData, fail_at \in FailAts :
    /\ Len(runs) < MaxRuns
    /\ run_workflow(workflow_id, data, fail_at)
    /\ UNCHANGED cp_others

NextCheckpoint == RunWorkflow

InitCheckpoint ==
    /\ CpInit
    /\ KgIdle
    /\ RrfIdle
    /\ HmIdle
    /\ VsIdle
    /\ FsmIdle
    /\ RtIdle
    /\ AdIdle
    /\ A2aIdle
    /\ McpIdle
    /\ GrIdle
    /\ SwIdle

SpecCheckpoint == InitCheckpoint /\ [][NextCheckpoint]_vars

(***************************************************************************)
(* Properties of the checkpointed workflow.                                *)
(***************************************************************************)
\* The run before run j with the same workflow_id, 0 when there is none.
PreviousRun(j) ==
    LET earlier == {i \in 1..(j - 1) : runs[i].workflow_id = runs[j].workflow_id}
    IN IF earlier = {} THEN 0 ELSE CHOOSE i \in earlier : \A h \in earlier : h <= i

\* The runs from which run j continues: the unbroken series of crashed runs of
\* the same workflow_id that ends just before run j.
RECURSIVE CrashedBefore(_)
CrashedBefore(j) ==
    LET i == PreviousRun(j)
    IN IF i = 0 \/ ~runs[i].crashed THEN {} ELSE {i} \cup CrashedBefore(i)

\* The steps completed by the runs from which run j continues.
CompletedBefore(j) == UNION {Range(runs[i].executed) : i \in CrashedBefore(j)}

\* The initial data merged with the results of the given steps.
Merged(data, steps) ==
    LET results == UNION {json_dumps(simulate_step(step)) : step \in steps}
        written == {item[1] : item \in results}
    IN [key \in DOMAIN data \cup written |->
           IF key \in written THEN (CHOOSE item \in results : item[1] = key)[2]
           ELSE data[key]]

\* C12: a run that follows a crashed run of the same workflow_id resumes at the
\* step where the crash occurred: it never re-executes a step that had already
\* completed, keeps the data merged from the completed steps, and ignores the
\* initial data passed on resume.
C12_ResumeAfterCrash ==
    \A j \in 1..Len(runs) :
        LET i == PreviousRun(j)
        IN (i # 0 /\ runs[i].crashed) =>
              LET first == CHOOSE f \in CrashedBefore(j) : \A h \in CrashedBefore(j) : f <= h
              IN /\ runs[j].start_step = runs[i].fail_at
                 /\ runs[j].executed # <<>> => runs[j].executed[1] = runs[i].fail_at
                 /\ Range(runs[j].executed) \cap CompletedBefore(j) = {}
                 /\ runs[j].start_data = Merged(runs[first].data, CompletedBefore(j))
                 /\ runs[j].start_data = runs[i].end_data

\* C12 witness: a run crashed at validate after two steps, and the next run of
\* the workflow, given other initial data, ran the three remaining steps.
C12_Witness ==
    \E j \in 2..Len(runs) :
        LET i == PreviousRun(j)
        IN /\ i # 0
           /\ runs[i].crashed
           /\ runs[i].executed = <<"extract", "transform">>
           /\ runs[j].data # runs[i].data
           /\ runs[j].executed = <<"validate", "enrich", "complete">>
           /\ ~runs[j].crashed

(***************************************************************************)
(* adapter_pattern.py: with_retry                                          *)
(***************************************************************************)
\* Bound of the model.
MaxAttempts == 4    \* the argument max_attempts

\* Time is counted in ticks of half a second, the delay of _call_with_retry.
RetryDelays == {1, 2}
RetryBackoffs == {1, 2, 3}

\* What the calls of the wrapped function do, in order: outcomes[i] is TRUE
\* when call i returns and FALSE when it raises an Exception.  Call i returns
\* <<"result", i>> or raises <<"exception", i>>.
CallOutcomes(n) == [1..n -> BOOLEAN]

\* raise last_exception with last_exception = None.
RaiseNone == <<"TypeError", 0>>

\* A wrapper that sleeps after every failed attempt.
retry_should_sleep_always(attempt, max_attempts) == attempt < max_attempts

\* wrapper: the test "attempt < max_attempts - 1" that guards the sleep.
retry_should_sleep(attempt, max_attempts) == attempt < max_attempts - 1

\* wrapper: the loop "for attempt in range(max_attempts)" from attempt on, and
\* the raise after it.  sleeps lists the arguments of time.sleep.
RECURSIVE retry_loop(_, _, _, _, _, _, _)
retry_loop(attempt, max_attempts, current_delay, backoff, outcomes, sleeps, last_exception) ==
    IF attempt >= max_attempts
    THEN [raised |-> TRUE, value |-> last_exception, calls |-> attempt, sleeps |-> sleeps]
    ELSE IF outcomes[attempt + 1]
    THEN [raised |-> FALSE, value |-> <<"result", attempt + 1>>,
          calls |-> attempt + 1, sleeps |-> sleeps]
    ELSE IF retry_should_sleep(attempt, max_attempts)
    THEN retry_loop(attempt + 1, max_attempts, current_delay * backoff, backoff, outcomes,
                    Append(sleeps, current_delay), <<"exception", attempt + 1>>)
    ELSE retry_loop(attempt + 1, max_attempts, current_delay, backoff, outcomes,
                    sleeps, <<"exception", attempt + 1>>)

\* with_retry(max_attempts, delay, backoff)(func)(): one call of the wrapper.
with_retry(max_attempts, delay, backoff, outcomes) ==
    retry_loop(0, max_attempts, delay, backoff, outcomes, <<>>, RaiseNone)

RtInit ==
    /\ rt_call = NotCalled

CallWrapper ==
    \E max_attempts \in 0..MaxAttempts, delay \in RetryDelays, backoff \in RetryBackoffs :
        \E outcomes \in CallOutcomes(max_attempts) :
            /\ rt_call = NotCalled
            /\ rt_call' = [op |-> "wrapper", max_attempts |-> max_attempts, delay |-> delay,
                           backoff |-> backoff, outcomes |-> outcomes,
                           out |-> with_retry(max_attempts, delay, backoff, outcomes)]
            /\ UNCHANGED rt_others

NextRetry == CallWrapper

InitRetry ==
    /\ RtInit
    /\ KgIdle
    /\ RrfIdle
    /\ HmIdle
    /\ VsIdle
    /\ FsmIdle
    /\ CpIdle
    /\ AdIdle
    /\ A2aIdle
    /\ McpIdle
    /\ GrIdle
    /\ SwIdle

SpecRetry == InitRetry /\ [][NextRetry]_vars

(***************************************************************************)
(* Properties of with_retry.                                               *)
(***************************************************************************)
\* C15: a function wrapped by with_retry(max_attempts = n, delay, backoff) is
\* called at most n times per invocation: the wrapper returns the result of
\* the first successful call without calling again, and when all n calls raise
\* it re-raises the last exception; it waits only between attempts (never
\* after the last one), each wait being the previous wait multiplied by
\* backoff, starting at delay.
C15_WithRetry ==
    rt_call.op = "wrapper" =>
        LET n == rt_call.max_attempts
            outcomes == rt_call.outcomes
            out == rt_call.out
            successes == {i \in 1..n : outcomes[i]}
        IN /\ out.calls <= n
           /\ successes # {} =>
                 /\ ~out.raised
                 /\ out.calls \in successes
                 /\ \A i \in successes : out.calls <= i
                 /\ out.value = <<"result", out.calls>>
           /\ (successes = {} /\ n >= 1) =>
                 /\ out.raised
                 /\ out.calls = n
                 /\ out.value = <<"exception", n>>
           /\ Len(out.sleeps) = (IF out.calls = 0 THEN 0 ELSE out.calls - 1)
           /\ Len(out.sleeps) >= 1 => out.sleeps[1] = rt_call.delay
           /\ \A i \in 2..Len(out.sleeps) :
                 out.sleeps[i] = out.sleeps[i - 1] * rt_call.backoff

\* C15 witness: with max_attempts = 3 and backoff 2 all three calls raise, after
\* two waits, and the third exception is raised.
C15_Witness ==
    /\ rt_call.op = "wrapper"
    /\ rt_call.max_attempts = 3
    /\ rt_call.backoff = 2
    /\ rt_call.out.raised
    /\ rt_call.out.calls = 3
    /\ Len(rt_call.out.sleeps) = 2
    /\ rt_call.out.sleeps[2] = 2 * rt_call.delay

(***************************************************************************)
(* adapter_pattern.py: CircuitBreaker and LegacySystemAdapter.execute      *)
(***************************************************************************)
\* Bounds of the model.
MaxTime == 5        \* ticks of the clock while a breaker is exercised
MaxFailures == 6    \* failures counted by a breaker

\* CircuitState
CircuitState == {"closed", "open", "half_open"}

\* The limits a CircuitBreaker is constructed with: failure_threshold,
\* recovery_timeout (in ticks) and half_open_max_calls.
BreakerLimits == {<<1, 1, 1>>, <<2, 2, 1>>, <<2, 1, 2>>}

\* CircuitBreaker(failure_threshold, recovery_timeout, half_open_max_calls)
CircuitBreaker(failure_threshold, recovery_timeout, half_open_max_calls) ==
    [failure_threshold |-> failure_threshold, recovery_timeout |-> recovery_timeout,
     half_open_max_calls |-> half_open_max_calls,
     state |-> "closed", failure_count |-> 0, last_failure_time |-> 0,
     half_open_calls |-> 0]

\* A can_execute that lets a request through as soon as recovery_timeout has
\* passed, not only after it.
can_execute_at_timeout(cb, t) ==
    CASE cb.state = "closed" -> [cb |-> cb, returned |-> TRUE]
      [] cb.state = "open" ->
            IF t - cb.last_failure_time >= cb.recovery_timeout
            THEN [cb |-> [cb EXCEPT !.state = "half_open", !.half_open_calls = 0],
                  returned |-> TRUE]
            ELSE [cb |-> cb, returned |-> FALSE]
      [] cb.state = "half_open" ->
            [cb |-> cb, returned |-> cb.half_open_calls < cb.half_open_max_calls]
      [] OTHER -> [cb |-> cb, returned |-> FALSE]

\* CircuitBreaker.can_execute at time t: the breaker after the call and the
\* value returned.
can_execute(cb, t) ==
    CASE cb.state = "closed" -> [cb |-> cb, returned |-> TRUE]
      [] cb.state = "open" ->
            IF t - cb.last_failure_time > cb.recovery_timeout
            THEN [cb |-> [cb EXCEPT !.state = "half_open", !.half_open_calls = 0],
                  returned |-> TRUE]
            ELSE [cb |-> cb, returned |-> FALSE]
      [] cb.state = "half_open" ->
            [cb |-> cb, returned |-> cb.half_open_calls < cb.half_open_max_calls]
      [] OTHER -> [cb |-> cb, returned |-> FALSE]

\* A record_success that closes the circuit from any state.
record_success_any_state(cb) ==
    IF cb.half_open_calls + 1 >= cb.half_open_max_calls
    THEN [cb EXCEPT !.half_open_calls = @ + 1, !.state = "closed", !.failure_count = 0]
    ELSE [cb EXCEPT !.half_open_calls = @ + 1]

\* CircuitBreaker.record_success
record_success(cb) ==
    IF cb.state = "half_open"
    THEN IF cb.half_open_calls + 1 >= cb.half_open_max_calls
         THEN [cb EXCEPT !.half_open_calls = @ + 1, !.state = "closed", !.failure_count = 0]
         ELSE [cb EXCEPT !.half_open_calls = @ + 1]
    ELSE cb

\* CircuitBreaker.record_failure at time t
record_failure(cb, t) ==
    LET counted == [cb EXCEPT !.failure_count = @ + 1, !.last_failure_time = t]
    IN IF cb.state = "half_open"
       THEN [counted EXCEPT !.state = "open"]
       ELSE IF counted.failure_count >= counted.failure_threshold
       THEN [counted EXCEPT !.state = "open"]
       ELSE counted

\* One call of a method of the breaker, as the call variable records it.
BreakerCall(method, before, after, t, returned) ==
    [method |-> method, before |-> before, after |-> after, time |-> t,
     returned |-> returned]

\* The responses of LegacySystemAdapter.execute that report an error.  A message
\* is the tuple of its parts: its fixed text, and the values formatted into it.
Unavailable ==
    [error |-> <<"Service temporarily unavailable">>,
     details |-> <<"Circuit breaker is open - too many recent failures">>]

CallFailed(exception) == [error |-> <<"Legacy system call failed">>, details |-> exception]

\* The time slept by a call of _call_with_retry.
RECURSIVE SumSeq(_)
SumSeq(s) == IF s = <<>> THEN 0 ELSE s[1] + SumSeq(Tail(s))

\* LegacySystemAdapter._call_with_retry: with_retry(max_attempts=3, delay=0.5)
\* around call_legacy_system, the delay being one tick.
call_with_retry(outcomes) == with_retry(3, 1, 2, outcomes)

\* LegacySystemAdapter.execute at time t.  request_ok and response_ok tell
\* whether translate_request and translate_response return (or raise);
\* outcomes tells which calls of call_legacy_system return, and result is the
\* legacy response.
execute(cb, t, request_ok, outcomes, response_ok, result) ==
    LET gate == can_execute(cb, t)
        checked == BreakerCall("can_execute", cb, gate.cb, t, gate.returned)
        tried == call_with_retry(outcomes)
        t_end == t + SumSeq(tried.sleeps)
        failed(at, translated, calls, exception) ==
            [cb |-> record_failure(gate.cb, at), response |-> CallFailed(exception),
             translated |-> translated, legacy_calls |-> calls, time |-> at,
             breaker_calls |-> <<checked, BreakerCall("record_failure", gate.cb,
                                     record_failure(gate.cb, at), at, FALSE)>>]
    IN IF ~gate.returned
       THEN [cb |-> gate.cb, response |-> Unavailable, translated |-> FALSE,
             legacy_calls |-> 0, time |-> t, breaker_calls |-> <<checked>>]
       ELSE IF ~request_ok
       THEN failed(t, TRUE, 0, <<"exception in translate_request", 0>>)
       ELSE IF tried.raised
       THEN failed(t_end, TRUE, tried.calls, tried.value)
       ELSE IF ~response_ok
       THEN failed(t_end, TRUE, tried.calls, <<"exception in translate_response", 0>>)
       ELSE [cb |-> record_success(gate.cb), response |-> result, translated |-> TRUE,
             legacy_calls |-> tried.calls, time |-> t_end,
             breaker_calls |-> <<checked, BreakerCall("record_success", gate.cb,
                                     record_success(gate.cb), t_end, FALSE)>>]

\* A breaker in a LegacySystemAdapter, just constructed.
BreakerInit ==
    /\ \E limits \in BreakerLimits :
          circuit_breaker = CircuitBreaker(limits[1], limits[2], limits[3])
    /\ now = 0
    /\ customers = <<>>
    /\ command_queue = <<>>
    /\ ad_call = NotCalled

\* The clock moves on between two calls.
Tick ==
    /\ now < MaxTime
    /\ now' = now + 1
    /\ UNCHANGED <<circuit_breaker, customers, command_queue, ad_call>>
    /\ UNCHANGED ad_others

CanExecute ==
    LET gate == can_execute(circuit_breaker, now)
    IN /\ circuit_breaker' = gate.cb
       /\ ad_call' = [op |-> "can_execute",
                      breaker_calls |-> <<BreakerCall("can_execute", circuit_breaker,
                                              gate.cb, now, gate.returned)>>]
       /\ UNCHANGED <<now, customers, command_queue>>
       /\ UNCHANGED ad_others

RecordSuccess ==
    /\ circuit_breaker' = record_success(circuit_breaker)
    /\ ad_call' = [op |-> "record_success",
                   breaker_calls |-> <<BreakerCall("record_success", circuit_breaker,
                                           record_success(circuit_breaker), now, FALSE)>>]
    /\ UNCHANGED <<now, customers, command_queue>>
    /\ UNCHANGED ad_others

RecordFailure ==
    /\ circuit_breaker.failure_count < MaxFailures
    /\ circuit_breaker' = record_failure(circuit_breaker, now)
    /\ ad_call' = [op |-> "record_failure",
                   breaker_calls |-> <<BreakerCall("record_failure", circuit_breaker,
                                           record_failure(circuit_breaker, now), now, FALSE)>>]
    /\ UNCHANGED <<now, customers, command_queue>>
    /\ UNCHANGED ad_others

\* What one call of execute meets in the adapter: translate_request raises; the
\* legacy call returns at its first, second or third attempt, or never; or
\* translate_response raises.
ExecuteCases ==
    {[request_ok |-> FALSE, outcomes |-> <<TRUE, TRUE, TRUE>>, response_ok |-> TRUE],
     [request_ok |-> TRUE, outcomes |-> <<TRUE, TRUE, TRUE>>, response_ok |-> TRUE],
     [request_ok |-> TRUE, outcomes |-> <<FALSE, TRUE, TRUE>>, response_ok |-> TRUE],
     [request_ok |-> TRUE, outcomes |-> <<FALSE, FALSE, TRUE>>, response_ok |-> TRUE],
     [request_ok |-> TRUE, outcomes |-> <<FALSE, FALSE, FALSE>>, response_ok |-> TRUE],
     [request_ok |-> TRUE, outcomes |-> <<TRUE, TRUE, TRUE>>, response_ok |-> FALSE]}

Execute == \E case \in ExecuteCases :
    LET out == execute(circuit_breaker, now, case.request_ok, case.outcomes,
                       case.response_ok, [result |-> "legacy response"])
    IN /\ circuit_breaker.failure_count < MaxFailures
       /\ out.time <= MaxTime
       /\ circuit_breaker' = out.cb
       /\ now' = out.time
       /\ ad_call' = [op |-> "execute", breaker_calls |-> out.breaker_calls,
                      response |-> out.response, translated |-> out.translated,
                      legacy_calls |-> out.legacy_calls]
       /\ UNCHANGED <<customers, command_queue>>
       /\ UNCHANGED ad_others

NextBreaker == Tick \/ CanExecute \/ RecordSuccess \/ RecordFailure \/ Execute

InitBreaker ==
    /\ BreakerInit
    /\ KgIdle
    /\ RrfIdle
    /\ HmIdle
    /\ VsIdle
    /\ FsmIdle
    /\ CpIdle
    /\ RtIdle
    /\ A2aIdle
    /\ McpIdle
    /\ GrIdle
    /\ SwIdle

SpecBreaker == InitBreaker /\ [][NextBreaker]_vars

(***************************************************************************)
(* Properties of the circuit breaker.                                      *)
(***************************************************************************)
\* The calls of the breaker's methods made by the last call.
BreakerCalls == IF ad_call = NotCalled THEN <<>> ELSE ad_call.breaker_calls

\* A call of can_execute on an OPEN breaker no more than recovery_timeout after
\* the last failure.
StillOpen(call) ==
    /\ call.method = "can_execute"
    /\ call.before.state = "open"
    /\ call.time - call.before.last_failure_time <= call.before.recovery_timeout

\* C13: while the circuit breaker is OPEN and no more than recovery_timeout
\* has passed since the last failure, can_execute returns False and leaves the
\* state OPEN, and LegacySystemAdapter.execute returns the 'Service temporarily
\* unavailable' error without translating the request, without calling the
\* legacy system and without recording a success or a failure.
C13_OpenRejects ==
    \A i \in 1..Len(BreakerCalls) :
        StillOpen(BreakerCalls[i]) =>
            /\ ~BreakerCalls[i].returned
            /\ BreakerCalls[i].after = BreakerCalls[i].before
            /\ ad_call.op = "execute" =>
                  /\ ad_call.response = Unavailable
                  /\ ~ad_call.translated
                  /\ ad_call.legacy_calls = 0
                  /\ Len(BreakerCalls) = 1
                  /\ circuit_breaker = BreakerCalls[i].before

\* C13 witness: execute is called on an OPEN breaker exactly recovery_timeout
\* after the last failure.
C13_Witness ==
    /\ ad_call.op = "execute"
    /\ StillOpen(BreakerCalls[1])
    /\ BreakerCalls[1].time - BreakerCalls[1].before.last_failure_time
          = BreakerCalls[1].before.recovery_timeout
    /\ BreakerCalls[1].before.recovery_timeout > 0

\* The changes of state the breaker makes, each with the call that makes it.
ClosedToOpen(call) ==
    /\ call.before.state = "closed"
    /\ call.method = "record_failure"
    /\ call.after.failure_count >= call.before.failure_threshold

OpenToHalfOpen(call) ==
    /\ call.before.state = "open"
    /\ call.method = "can_execute"
    /\ call.time - call.before.last_failure_time > call.before.recovery_timeout

HalfOpenToOpen(call) ==
    /\ call.before.state = "half_open"
    /\ call.method = "record_failure"

HalfOpenToClosed(call) ==
    /\ call.before.state = "half_open"
    /\ call.method = "record_success"
    /\ call.after.half_open_calls = call.before.half_open_max_calls

\* C14: the circuit breaker changes state only as follows: CLOSED -> OPEN when
\* record_failure brings failure_count to failure_threshold or more; OPEN ->
\* HALF_OPEN when can_execute is called more than recovery_timeout after the
\* last failure; HALF_OPEN -> OPEN on any record_failure; HALF_OPEN -> CLOSED
\* when record_success brings half_open_calls to half_open_max_calls, which
\* also resets failure_count to 0.  No other state change occurs.
C14_BreakerTransitions ==
    \A i \in 1..Len(BreakerCalls) :
        LET call == BreakerCalls[i]
        IN /\ ClosedToOpen(call) => call.after.state = "open"
           /\ OpenToHalfOpen(call) => call.after.state = "half_open"
           /\ HalfOpenToOpen(call) => call.after.state = "open"
           /\ HalfOpenToClosed(call) =>
                 call.after.state = "closed" /\ call.after.failure_count = 0
           /\ call.after.state # call.before.state =>
                 \/ ClosedToOpen(call) /\ call.after.state = "open"
                 \/ OpenToHalfOpen(call) /\ call.after.state = "half_open"
                 \/ HalfOpenToOpen(call) /\ call.after.state = "open"
                 \/ HalfOpenToClosed(call) /\ call.after.state = "closed"

\* C14 witness: a breaker that opened after two failures and was let through
\* after the timeout is closed again by a successful call of execute.
C14_Witness ==
    /\ ad_call.op = "execute"
    /\ Len(BreakerCalls) = 2
    /\ HalfOpenToClosed(BreakerCalls[2])
    /\ BreakerCalls[2].before.failure_count >= 2
    /\ circuit_breaker.state = "closed"
    /\ circuit_breaker.failure_count = 0

(***************************************************************************)
(* adapter_pattern.py: SafeDatabaseAdapter                                 *)
(***************************************************************************)
\* Bounds of the model.
MaxCommands == 2    \* commands in the queue
MaxClock == 90      \* ticks of the clock while the database adapter is used

\* CircuitBreaker(): failure_threshold 5, recovery_timeout 30.0 seconds,
\* half_open_max_calls 3.
DefaultBreaker == CircuitBreaker(5, 60, 3)

\* SafeDatabaseAdapter._customers at construction: the keys in dict order, each
\* with its row.
InitialCustomers ==
    << <<"1", [id |-> "1", name |-> "Alice", email |-> "alice@example.com",
               ssn |-> "***-**-1234", credit_score |-> "750"]>>,
       <<"2", [id |-> "2", name |-> "Bob", email |-> "bob@example.com",
               ssn |-> "***-**-5678", credit_score |-> "680"]>> >>

\* SafeDatabaseAdapter._secure_views
SecureViews ==
    [customer_basic |-> <<"id", "name", "email">>,
     customer_full |-> <<"id", "name", "email", "credit_score">>]

\* Values that cannot be dict keys: a list, written as its text.
Unhashable == {"['customer_basic']", "['1']"}

\* The agent requests: dicts, as functions from their keys.
DbRequests ==
    {[operation |-> "read", view |-> "customer_basic", customer_id |-> "1"],
     [operation |-> "read", view |-> "customer_full", customer_id |-> "2"],
     [operation |-> "read", view |-> "customer_full"],
     [operation |-> "read", view |-> "customer_full", customer_id |-> ""],
     [operation |-> "read", customer_id |-> "3"],
     [operation |-> "read", view |-> "customer_secret", customer_id |-> "1"],
     [operation |-> "read", view |-> "['customer_basic']"],
     [operation |-> "read", view |-> "customer_basic", customer_id |-> "['1']"],
     [operation |-> "write", command_type |-> "update", table |-> "customers",
      data |-> "{id: 1, email: alice.new@example.com}",
      agent_id |-> "customer-service-agent"],
     [operation |-> "write"],
     [operation |-> "drop"]}

\* dict.get(key, default)
get(dict, key, default) == IF key \in DOMAIN dict THEN dict[key] ELSE default

\* The truth value of a string or None.
Truthy(value) == value # None /\ value # ""

\* The decimal digits of n.
RECURSIVE Digits(_)
Digits(n) == IF n < 10 THEN <<n>> ELSE Append(Digits(n \div 10), n % 10)

\* f"{n:04d}": the digits of n, with zeros in front up to four digits.
Format04d(n) ==
    LET digits == Digits(n)
    IN IF Len(digits) >= 4 THEN digits
       ELSE [i \in 1..(4 - Len(digits)) |-> 0] \o digits

\* f"CMD-{n:04d}"
CommandId(n) == <<"CMD-">> \o Format04d(n)

\* DatabaseCommand
DatabaseCommand(command_id, command_type, table, data, submitted_by) ==
    [command_id |-> command_id, command_type |-> command_type, table |-> table,
     data |-> data, submitted_by |-> submitted_by, status |-> "pending",
     validation_errors |-> <<>>]

\* A view that lets every column through.
filter_columns_all(customer, allowed_columns) == customer

\* {k: v for k, v in customer.items() if k in allowed_columns}
filter_columns(customer, allowed_columns) ==
    [column \in {c \in DOMAIN customer : c \in Range(allowed_columns)} |-> customer[column]]

\* What a call into the database makes of a request: whether it raised, the
\* response when it did not, and the command queue after it.
Raised(queue) == [raised |-> TRUE, response |-> <<>>, queue |-> queue]

Returned(response, queue) == [raised |-> FALSE, response |-> response, queue |-> queue]

\* SafeDatabaseAdapter._read_through_view
read_through_view(table, queue, view_name, customer_id) ==
    IF view_name \in Unhashable THEN Raised(queue)
    ELSE IF view_name \notin DOMAIN SecureViews
    THEN Returned([error |-> <<"View '", view_name, "' not found">>], queue)
    ELSE IF Truthy(customer_id)
    THEN IF customer_id \in Unhashable THEN Raised(queue)
         ELSE IF \A i \in 1..Len(table) : table[i][1] # customer_id
         THEN Returned([error |-> <<"Customer not found">>], queue)
         ELSE LET customer == table[CHOOSE i \in 1..Len(table) : table[i][1] = customer_id][2]
              IN Returned([data |-> [dict |-> filter_columns(customer, SecureViews[view_name])],
                           view |-> view_name], queue)
    ELSE Returned([data |-> [list |-> [i \in 1..Len(table) |->
                                 filter_columns(table[i][2], SecureViews[view_name])]],
                   view |-> view_name], queue)

\* SafeDatabaseAdapter._write_through_queue
write_through_queue(queue, request) ==
    LET command == DatabaseCommand(CommandId(Len(queue) + 1),
                                   get(request, "command_type", "update"),
                                   get(request, "table", ""),
                                   get(request, "data", "{}"),
                                   get(request, "agent_id", "unknown"))
    IN Returned([status |-> "submitted", command_id |-> command.command_id,
                 message |-> "Command queued for validation. A separate process will review and execute."],
                Append(queue, command))

\* SafeDatabaseAdapter.call_legacy_system
call_legacy_system(table, queue, request) ==
    LET operation == get(request, "operation", None)
        view_name == get(request, "view", "customer_basic")
        customer_id == get(request, "customer_id", None)
    IN IF operation = "read" THEN read_through_view(table, queue, view_name, customer_id)
       ELSE IF operation = "write" THEN write_through_queue(queue, request)
       ELSE Returned([error |-> <<"Unknown operation: ", operation>>], queue)

\* SafeDatabaseAdapter.get_pending_commands
get_pending_commands(queue) ==
    LET pending == SelectSeq(queue, LAMBDA cmd : cmd.status = "pending")
    IN [i \in 1..Len(pending) |->
           [command_id |-> pending[i].command_id, type |-> pending[i].command_type,
            table |-> pending[i].table, data |-> pending[i].data,
            submitted_by |-> pending[i].submitted_by, status |-> pending[i].status]]

\* SafeDatabaseAdapter.__init__
DbInit ==
    /\ circuit_breaker = DefaultBreaker
    /\ now = 0
    /\ customers = InitialCustomers
    /\ command_queue = <<>>
    /\ ad_call = NotCalled

\* SafeDatabaseAdapter.execute: translate_request and translate_response pass
\* their argument through; a call of call_legacy_system that raises does so
\* before it changes anything, so that every retry raises again.
DbExecute == \E request \in DbRequests :
    LET call == call_legacy_system(customers, command_queue, request)
        out == execute(circuit_breaker, now, TRUE, [i \in 1..3 |-> ~call.raised],
                       TRUE, call.response)
    IN /\ circuit_breaker.failure_count < MaxFailures
       /\ out.time <= MaxClock
       /\ Len(command_queue) < MaxCommands
       /\ circuit_breaker' = out.cb
       /\ now' = out.time
       /\ command_queue' = IF out.legacy_calls > 0 THEN call.queue ELSE command_queue
       /\ ad_call' = [op |-> "execute", request |-> request,
                      breaker_calls |-> out.breaker_calls, response |-> out.response,
                      translated |-> out.translated, legacy_calls |-> out.legacy_calls]
       /\ UNCHANGED customers
       /\ UNCHANGED ad_others

GetPendingCommands ==
    /\ ad_call' = [op |-> "get_pending_commands", breaker_calls |-> <<>>,
                   returned |-> get_pending_commands(command_queue)]
    /\ UNCHANGED <<circuit_breaker, now, customers, command_queue>>
    /\ UNCHANGED ad_others

\* The caller waits for more than the recovery timeout of the breaker.
Wait ==
    /\ now + DefaultBreaker.recovery_timeout + 1 <= MaxClock
    /\ now' = now + DefaultBreaker.recovery_timeout + 1
    /\ UNCHANGED <<circuit_breaker, customers, command_queue, ad_call>>
    /\ UNCHANGED ad_others

NextDatabase == DbExecute \/ GetPendingCommands \/ Wait

InitDatabase ==
    /\ DbInit
    /\ KgIdle
    /\ RrfIdle
    /\ HmIdle
    /\ VsIdle
    /\ FsmIdle
    /\ CpIdle
    /\ RtIdle
    /\ A2aIdle
    /\ McpIdle
    /\ GrIdle
    /\ SwIdle

SpecDatabase == InitDatabase /\ [][NextDatabase]_vars

(***************************************************************************)
(* Properties of the database adapter.                                     *)
(***************************************************************************)
\* The last call was execute with a request of the given operation.
Executed(operation) ==
    /\ ad_call # NotCalled
    /\ ad_call.op = "execute"
    /\ get(ad_call.request, "operation", None) = operation

\* The customer records in a response.
RecordsIn(response) ==
    IF "data" \notin DOMAIN response THEN {}
    ELSE IF "dict" \in DOMAIN response.data THEN {response.data.dict}
    ELSE Range(response.data.list)

\* C16: for every read executed through SafeDatabaseAdapter (any view name,
\* with or without a customer_id), each returned record contains only columns
\* listed in the requested secure view; no response ever contains the 'ssn'
\* column, and an unknown view yields an error with no customer data.
C16_ReadThroughView ==
    /\ (ad_call # NotCalled /\ ad_call.op = "execute") =>
          \A record \in RecordsIn(ad_call.response) : "ssn" \notin DOMAIN record
    /\ Executed("read") =>
          LET view_name == get(ad_call.request, "view", "customer_basic")
          IN /\ RecordsIn(ad_call.response) # {} => view_name \in DOMAIN SecureViews
             /\ \A record \in RecordsIn(ad_call.response) :
                   DOMAIN record \subseteq Range(SecureViews[view_name])
             /\ view_name \notin DOMAIN SecureViews =>
                   /\ "error" \in DOMAIN ad_call.response
                   /\ "data" \notin DOMAIN ad_call.response

\* C16 witness: a read of every customer through customer_full returned two
\* records with the credit score, from rows that hold an ssn.
C16_Witness ==
    /\ Executed("read")
    /\ Cardinality(RecordsIn(ad_call.response)) = 2
    /\ \A record \in RecordsIn(ad_call.response) : "credit_score" \in DOMAIN record
    /\ \A i \in 1..Len(customers) : "ssn" \in DOMAIN customers[i][2]

\* C17: after any sequence of execute calls on SafeDatabaseAdapter the
\* customers table equals its initial contents, and each write request appends
\* exactly one command with status 'pending' whose command_id is CMD-<n>
\* (4 digits) for its 1-based position in the queue, so command ids are unique
\* and get_pending_commands lists the commands in submission order.
C17_WriteThroughQueue ==
    [][/\ customers' = InitialCustomers
       /\ (/\ ad_call' # ad_call
           /\ ad_call'.op = "execute"
           /\ get(ad_call'.request, "operation", None) = "write") =>
             /\ Len(command_queue') = Len(command_queue) + 1
             /\ SubSeq(command_queue', 1, Len(command_queue)) = command_queue
             /\ command_queue'[Len(command_queue')].status = "pending"
             /\ command_queue'[Len(command_queue')].command_id
                   = <<"CMD-", 0, 0, 0, Len(command_queue')>>
       /\ \A i, j \in 1..Len(command_queue') :
             command_queue'[i].command_id = command_queue'[j].command_id => i = j
       /\ ad_call'.op = "get_pending_commands" =>
             /\ Len(ad_call'.returned) = Len(command_queue')
             /\ \A i \in 1..Len(command_queue') :
                   ad_call'.returned[i].command_id = command_queue'[i].command_id]_ad_vars

(***************************************************************************)
(* agent_card.py: A2ATask                                                  *)
(***************************************************************************)
\* Bound of the model.
MaxTransitions == 4     \* calls of transition_to on one task

\* TaskStatus
TaskStatus == {"submitted", "working", "completed", "failed", "cancelled"}

\* valid_transitions of A2ATask.transition_to: a dict with two keys.
valid_transitions ==
    [submitted |-> <<"working", "cancelled">>,
     working |-> <<"completed", "failed", "cancelled">>]

\* The result and error arguments: None, a falsy value, a value.
ResultArgs == {None, "{}", "{approved: True}"}
ErrorArgs == {None, "", "timeout"}

\* A2ATask(task_id, skill_name, input_data)
A2aInit ==
    /\ status = "submitted"
    /\ task_result = None
    /\ task_error = None
    /\ updated_at = 0
    /\ utcnow = 0
    /\ a2a_call = NotCalled

\* A2ATask.transition_to, called at time utcnow + 1.
transition_to(new_status, new_result, new_error) ==
    LET call == [op |-> "transition_to", new_status |-> new_status,
                 result |-> new_result, error |-> new_error, time |-> utcnow + 1]
    IN /\ utcnow' = utcnow + 1
       /\ IF /\ status \in DOMAIN valid_transitions
             /\ new_status \notin Range(valid_transitions[status])
          THEN /\ a2a_call' = [call EXCEPT !.op = "transition_to raised ValueError"]
               /\ UNCHANGED <<status, task_result, task_error, updated_at>>
          ELSE /\ status' = new_status
               /\ updated_at' = utcnow + 1
               /\ task_result' = IF new_result \notin {None, "{}"} THEN new_result ELSE task_result
               /\ task_error' = IF new_error \notin {None, ""} THEN new_error ELSE task_error
               /\ a2a_call' = call

TransitionTo ==
    \E new_status \in TaskStatus, new_result \in ResultArgs, new_error \in ErrorArgs :
        /\ utcnow < MaxTransitions
        /\ transition_to(new_status, new_result, new_error)
        /\ UNCHANGED a2a_others

NextTask == TransitionTo

InitTask ==
    /\ A2aInit
    /\ KgIdle
    /\ RrfIdle
    /\ HmIdle
    /\ VsIdle
    /\ FsmIdle
    /\ CpIdle
    /\ RtIdle
    /\ AdIdle
    /\ McpIdle
    /\ GrIdle
    /\ SwIdle

SpecTask == InitTask /\ [][NextTask]_vars

(***************************************************************************)
(* Properties of the task lifecycle.                                       *)
(***************************************************************************)
\* The transitions of the lifecycle submitted -> working -> completed/failed,
\* with cancellation from submitted or working.
InLifecycle(from, to) ==
    \/ from = "submitted" /\ to \in {"working", "cancelled"}
    \/ from = "working" /\ to \in {"completed", "failed", "cancelled"}

\* C18: an A2ATask follows the lifecycle submitted -> working ->
\* completed/failed, with cancellation allowed from submitted or working:
\* transition_to raises ValueError for any other transition and then leaves
\* status, result, error and updated_at unchanged; a task that is COMPLETED,
\* FAILED or CANCELLED never changes status again, and COMPLETED or FAILED is
\* reached only from WORKING.
C18_TaskLifecycle ==
    [][/\ ~InLifecycle(status, a2a_call'.new_status) =>
             /\ a2a_call'.op = "transition_to raised ValueError"
             /\ UNCHANGED <<status, task_result, task_error, updated_at>>
       /\ status \in {"completed", "failed", "cancelled"} => status' = status
       /\ (status' \in {"completed", "failed"} /\ status' # status) =>
             status = "working"]_a2a_vars

(***************************************************************************)
(* mcp_tools.py: CustomerServiceMCPServer.read_resource                    *)
(***************************************************************************)
\* Bound of the model.
MaxRegistered == 3      \* resources registered with one server

\* MCPResource; description, mime_type, last_updated and size_bytes are read
\* by no method of the server.
MCPResource(uri, name, required_scopes) ==
    [uri |-> uri, name |-> name, required_scopes |-> required_scopes]

Scopes == {"customer_service:read", "customer_service:write", "admin:read"}

\* The user_context arguments: {"user_id": ..., "scopes": [...]}, with the
\* scopes granted to the caller as a set.
UserContexts == {[user_id |-> "agent-001", scopes |-> granted] : granted \in SUBSET Scopes}

\* The uris asked for: the two policies, a resource registered later, and one
\* that is never registered.
Uris ==
    {"policy://return-policy", "policy://shipping-info", "policy://internal-notes",
     "policy://unknown"}

\* The resources registered after construction: a new one, and the return
\* policy registered again with no required scope.
ExtraResources ==
    {MCPResource("policy://internal-notes", "Internal Notes", <<"admin:read">>),
     MCPResource("policy://return-policy", "Return Policy", <<>>)}

\* The texts read_resource returns, each as the tuple of its parts.
ReturnPolicyText == <<"# Return Policy ... contact customer service with your order number.">>
ShippingInfoText == <<"# Shipping Information ... Free shipping on orders over $50!">>
NotFoundText(uri) == <<"Resource '", uri, "' not found">>
EmptyText == <<"">>

\* MCPServer.register_resource: the dict after the call.
register_resource(registered, resource) == (resource.uri :> resource) @@ registered

\* CustomerServiceMCPServer._setup_resources
setup_resources ==
    register_resource(
        register_resource(<<>>,
            MCPResource("policy://return-policy", "Return Policy",
                        <<"customer_service:read">>)),
        MCPResource("policy://shipping-info", "Shipping Information",
                    <<"customer_service:read">>))

\* CustomerServiceMCPServer.__init__
McpInit ==
    /\ resources = setup_resources
    /\ mcp_call = NotCalled

\* CustomerServiceMCPServer.read_resource: the string returned.
read_resource(uri, user_context) ==
    IF uri \notin DOMAIN resources THEN NotFoundText(uri)
    ELSE IF uri = "policy://return-policy" THEN ReturnPolicyText
    ELSE IF uri = "policy://shipping-info" THEN ShippingInfoText
    ELSE EmptyText

RegisterResource == \E resource \in ExtraResources :
    /\ Cardinality(DOMAIN resources \cup {resource.uri}) <= MaxRegistered
    /\ resources' = register_resource(resources, resource)
    /\ mcp_call' = [op |-> "register_resource", resource |-> resource]
    /\ UNCHANGED mcp_others

ReadResource == \E uri \in Uris, user_context \in UserContexts :
    /\ mcp_call' = [op |-> "read_resource", uri |-> uri, user_context |-> user_context,
                    returned |-> read_resource(uri, user_context)]
    /\ UNCHANGED resources
    /\ UNCHANGED mcp_others

NextMCP == RegisterResource \/ ReadResource

InitMCP ==
    /\ McpInit
    /\ KgIdle
    /\ RrfIdle
    /\ HmIdle
    /\ VsIdle
    /\ FsmIdle
    /\ CpIdle
    /\ RtIdle
    /\ AdIdle
    /\ A2aIdle
    /\ GrIdle
    /\ SwIdle

SpecMCP == InitMCP /\ [][NextMCP]_vars

(***************************************************************************)
(* Properties of the MCP server.                                           *)
(***************************************************************************)
\* C19: read_resource returns a resource's content only when the scopes in
\* user_context include every scope in that resource's required_scopes; a
\* caller lacking a required scope receives no resource content.
C19_ResourceAuthorized ==
    (/\ mcp_call.op = "read_resource"
     /\ mcp_call.uri \in DOMAIN resources
     /\ mcp_call.returned \in {ReturnPolicyText, ShippingInfoText}) =>
        Range(resources[mcp_call.uri].required_scopes) \subseteq mcp_call.user_context.scopes

(***************************************************************************)
(* guardrails.py: OutputGuardrail and DefenseInDepthPipeline.process_output*)
(***************************************************************************)
\* Bound of the model.
MaxWords == 3       \* words in one content

\* A content is a list of words, which stands for the words joined by single
\* spaces.  No word of the vocabulary is part of another one, so that a phrase
\* is a substring of a content exactly when its words follow each other in it.
Words ==
    {"CONFIDENTIAL", "Internal", "use", "only", "report",
     "alice@example.com", "555-123-4567"}

Contents == SeqsUpTo(Words, MaxWords)

\* str.lower on a word of the vocabulary.
lower(word) ==
    CASE word = "CONFIDENTIAL" -> "confidential"
      [] word = "Internal" -> "internal"
      [] OTHER -> word

\* OutputGuardrail._pii_patterns: the pii types in dict order, and the words of
\* the vocabulary each pattern matches (with re.IGNORECASE).
PiiTypes == <<"email", "phone", "ssn", "credit_card", "api_key">>

pii_matches(pii_type, word) ==
    \/ pii_type = "email" /\ word = "alice@example.com"
    \/ pii_type = "phone" /\ word = "555-123-4567"

\* f"[REDACTED {pii_type.upper()}]"
Redacted(pii_type) ==
    CASE pii_type = "email" -> "[REDACTED EMAIL]"
      [] pii_type = "phone" -> "[REDACTED PHONE]"
      [] pii_type = "ssn" -> "[REDACTED SSN]"
      [] pii_type = "credit_card" -> "[REDACTED CREDIT_CARD]"
      [] pii_type = "api_key" -> "[REDACTED API_KEY]"

\* The loop over _pii_patterns from pattern i on: re.findall on the content,
\* re.sub on the text modified so far.
RECURSIVE pii_scan(_, _, _, _)
pii_scan(i, content, pii_found, modified) ==
    IF i > Len(PiiTypes) THEN [pii_found |-> pii_found, modified |-> modified]
    ELSE IF \E j \in 1..Len(content) : pii_matches(PiiTypes[i], content[j])
    THEN pii_scan(i + 1, content, Append(pii_found, PiiTypes[i]),
                  [j \in 1..Len(modified) |->
                      IF pii_matches(PiiTypes[i], modified[j]) THEN Redacted(PiiTypes[i])
                      ELSE modified[j]])
    ELSE pii_scan(i + 1, content, pii_found, modified)

\* policy_violations of OutputGuardrail.check, each phrase as its words.
policy_violations ==
    << <<"internal", "use", "only">>, <<"confidential">>, <<"do", "not", "share">> >>

\* pv in content.lower()
phrase_in(phrase, content) ==
    \E start \in 1..Len(content) :
        /\ start + Len(phrase) - 1 <= Len(content)
        /\ \A i \in 1..Len(phrase) : lower(content[start + i - 1]) = phrase[i]

\* GuardrailResult
GuardrailResult(passed, action, threats_detected, message, modified_content) ==
    [passed |-> passed, action |-> action, threats_detected |-> threats_detected,
     message |-> message, modified_content |-> modified_content]

\* OutputGuardrail.check.  A message is the tuple of its parts, and a
\* modified_content of None is the empty tuple.
output_check(content) ==
    LET scan == pii_scan(1, content, <<>>, content)
        pii_threats == IF scan.pii_found # <<>> THEN <<"pii_exposure">> ELSE <<>>
        threats == IF \E i \in 1..Len(policy_violations) :
                         phrase_in(policy_violations[i], content)
                   THEN Append(pii_threats, "policy_violation")
                   ELSE pii_threats
    IN IF "pii_exposure" \in Range(threats)
       THEN GuardrailResult(TRUE, "sanitize", threats,
                            <<"PII detected and redacted: ", scan.pii_found>>,
                            <<"modified", scan.modified>>)
       ELSE IF threats # <<>>
       THEN GuardrailResult(FALSE, "flag", threats, <<"Policy violation detected">>, <<>>)
       ELSE GuardrailResult(TRUE, "allow", <<>>, <<"">>, <<>>)

\* DefenseInDepthPipeline.process_output
process_output(content) ==
    LET checked == output_check(content)
    IN [allowed |-> checked.passed,
        action |-> checked.action,
        threats |-> checked.threats_detected,
        modified_content |-> IF checked.modified_content # <<>> /\ checked.modified_content[2] # <<>>
                             THEN checked.modified_content[2] ELSE content,
        message |-> checked.message]

\* DefenseInDepthPipeline.__init__
GrInit ==
    /\ gr_call = NotCalled

\* The guardrails keep nothing from one call to the next, so one call is made
\* on each content.
ProcessOutput == \E content \in Contents :
    /\ gr_call = NotCalled
    /\ gr_call' = [op |-> "process_output", content |-> content,
                   returned |-> process_output(content)]
    /\ UNCHANGED gr_others

NextGuardrail == ProcessOutput

InitGuardrail ==
    /\ GrInit
    /\ KgIdle
    /\ RrfIdle
    /\ HmIdle
    /\ VsIdle
    /\ FsmIdle
    /\ CpIdle
    /\ RtIdle
    /\ AdIdle
    /\ A2aIdle
    /\ McpIdle
    /\ SwIdle

SpecGuardrail == InitGuardrail /\ [][NextGuardrail]_vars

(***************************************************************************)
(* Properties of the output guardrail.                                     *)
(***************************************************************************)
\* C20: whenever the content contains a policy-violation phrase ('internal use
\* only', 'confidential', 'do not share'), process_output reports
\* allowed = False, whether or not PII is also present in the content.
C20_PolicyBlocked ==
    (/\ gr_call.op = "process_output"
     /\ \/ phrase_in(<<"internal", "use", "only">>, gr_call.content)
        \/ phrase_in(<<"confidential">>, gr_call.content)
        \/ phrase_in(<<"do", "not", "share">>, gr_call.content)) =>
        ~gr_call.returned.allowed

(***************************************************************************)
(* context_compaction.py: SlidingWindowManager                             *)
(***************************************************************************)
\* Bounds of the model.
MaxWindow == 2      \* the argument window_size
MaxTurns == 5       \* calls of add_turn on one manager

TurnRoles == {"user", "assistant"}

\* The content arguments: a text with its number of characters, its number of
\* words and its first 100 characters.  The second one is longer than 100.
TurnContents ==
    {[text |-> "Where is my order?", chars |-> 18, words |-> 4,
      head |-> "Where is my order?"],
     [text |-> "I ordered a laptop ... and it has not arrived yet.", chars |-> 140,
      words |-> 27, head |-> "I ordered a laptop ..."]}

\* ConversationTurn; the timestamp is the number of the call that made it.
ConversationTurn(turn_id, role, content, timestamp, token_count) ==
    [turn_id |-> turn_id, role |-> role, content |-> content,
     timestamp |-> timestamp, token_count |-> token_count, summary |-> ""]

\* str.upper on a role.
role_upper(role) ==
    CASE role = "user" -> "USER"
      [] role = "assistant" -> "ASSISTANT"
      [] OTHER -> role

\* SlidingWindowManager._generate_turn_summary: the summary as the tuple of
\* the parts of its f-string.
generate_turn_summary(turn) ==
    IF turn.content.chars > 100
    THEN <<"[", role_upper(turn.role), "] ", turn.content.head, "...">>
    ELSE <<"[", role_upper(turn.role), "] ", turn.content.text>>

\* A compaction that drops the newest turn and keeps the oldest.
compact_newest(turns, summarized) ==
    [all_turns |-> SubSeq(turns, 1, Len(turns) - 1),
     summarized_history |-> Append(summarized, generate_turn_summary(turns[Len(turns)]))]

\* SlidingWindowManager._compact_oldest: the detailed history and the summary
\* buffer after the call.  The buffer is the list of the summaries that the
\* code joins with single spaces.
compact_oldest(turns, summarized) ==
    [all_turns |-> Tail(turns),
     summarized_history |-> Append(summarized, generate_turn_summary(turns[1]))]

\* SlidingWindowManager(window_size)
SwInit ==
    /\ window_size \in 0..MaxWindow
    /\ all_turns = <<>>
    /\ summarized_history = <<>>
    /\ added_turns = <<>>

\* SlidingWindowManager.add_turn
add_turn(role, content) ==
    LET turn == ConversationTurn(Len(all_turns) + 1, role, content,
                                 Len(added_turns) + 1, content.words)
        appended == Append(all_turns, turn)
        compacted == compact_oldest(appended, summarized_history)
    IN /\ added_turns' = Append(added_turns, turn)
       /\ IF Len(appended) > window_size
          THEN /\ all_turns' = compacted.all_turns
               /\ summarized_history' = compacted.summarized_history
          ELSE /\ all_turns' = appended
               /\ UNCHANGED summarized_history
       /\ UNCHANGED window_size

AddTurn == \E role \in TurnRoles, content \in TurnContents :
    /\ Len(added_turns) < MaxTurns
    /\ add_turn(role, content)
    /\ UNCHANGED sw_others

NextWindow == AddTurn

InitWindow ==
    /\ SwInit
    /\ KgIdle
    /\ RrfIdle
    /\ HmIdle
    /\ VsIdle
    /\ FsmIdle
    /\ CpIdle
    /\ RtIdle
    /\ AdIdle
    /\ A2aIdle
    /\ McpIdle
    /\ GrIdle

SpecWindow == InitWindow /\ [][NextWindow]_vars

(***************************************************************************)
(* Properties of the sliding window.                                       *)
(***************************************************************************)
\* C21: after any sequence of add_turn calls on a SlidingWindowManager, the
\* detailed history holds at most window_size turns, and they are the most
\* recently added turns in the order they were added.
C21_SlidingWindow ==
    /\ Len(all_turns) <= window_size
    /\ Len(all_turns) <= Len(added_turns)
    /\ all_turns = SubSeq(added_turns, Len(added_turns) - Len(all_turns) + 1,
                          Len(added_turns))

\* C21 witness: a window of two turns after four calls holds the third and
\* the fourth turn, the first two having been summarized.
C21_Witness ==
    /\ window_size = 2
    /\ Len(added_turns) = 4
    /\ Len(summarized_history) = 2
    /\ all_turns = <<added_turns[3], added_turns[4]>>

====
